---- MODULE Spec2Model ----
(***************************************************************************)
(* Okidata live keystroke printer (src/oki.py): the command registry, the  *)
(* toggle and setting handlers, the restore-defaults action, the keystroke *)
(* handler and the timer-driven commit sequence of a Return.               *)
(*                                                                         *)
(* Byte strings are sequences of numbers 0..255.  A text is a sequence of  *)
(* code points.  Every call of the transport path (send_live_command,      *)
(* send_command_immediately, the inline transport of restore_defaults) is  *)
(* recorded as a transmission record with its outcome.                     *)
(***************************************************************************)
EXTENDS Integers, Sequences, FiniteSets, TLC

(* ------------------------------ bounds -------------------------------- *)
\* user events handled in one behaviour of Spec
MaxOps == 1
\* user events handled in one behaviour of SpecPanel
MaxPanelOps == 2
\* user events handled in one behaviour of SpecToggles
MaxToggleOps == 3
\* user events handled in one behaviour of SpecEditor
MaxEditorOps == 2
\* user events handled in one behaviour of SpecSends
MaxSendOps == 1
\* handler calls in one behaviour of SpecLookup
MaxLookupOps == 1
\* calls of update_line_length_display in one behaviour of SpecMetrics
MaxMetricOps == 1
\* user events followed in SpecDebug
MaxDebugOps == 2
\* user events followed in SpecCommits
MaxCommitOps == 2
\* largest left margin the user dials in (the spinbox allows 0..20)
MaxMargin == 2
\* connections that fail in one behaviour
MaxFail == 1

(* ------------------------ DEFAULT_CONFIG ------------------------------ *)
DEFAULT_CPI == "10 cpi"
DEFAULT_SKIP_PERFORATION == 0
DEFAULT_LEFT_MARGIN == 0
\* tk.DoubleVar(value=7.5), as the entry shows it
DEFAULT_RIGHT_MARGIN == "7.5"
DEFAULT_PORT == <<57, 49, 48, 48>>      \* str(9100)

(* ------------------------ OKIDATA_COMMANDS ---------------------------- *)
OKIDATA_COMMANDS_cr_lf_swapped ==
  ("Backspace" :> <<8>>)
  @@ ("Carriage Return" :> <<10>>)
  @@ ("Select 10 cpi" :> <<30>>)
  @@ ("Select 12 cpi" :> <<28>>)
  @@ ("Select 15 cpi" :> <<27, 103>>)
  @@ ("Select 17.1 cpi" :> <<29>>)
  @@ ("Select 20 cpi" :> <<27, 35, 51>>)
  @@ ("Standard Character Set" :> <<27, 33, 48>>)
  @@ ("Block Graphic Set" :> <<27, 33, 49>>)
  @@ ("Publisher Set" :> <<27, 33, 90>>)
  @@ ("Line Graphics Set" :> <<27, 33, 50>>)
  @@ ("Select Utility" :> <<27, 48>>)
  @@ ("Slashed Zero" :> <<27, 33, 64>>)
  @@ ("Unslashed Zero" :> <<27, 33, 65>>)
  @@ ("Double Height On" :> <<27, 31, 49>>)
  @@ ("Double Height Off" :> <<27, 31, 48>>)
  @@ ("Double Width On" :> <<31>>)
  @@ ("Double Width Off" :> <<27, 33, 48>>)
  @@ ("Emphasized Printing On" :> <<27, 84>>)
  @@ ("Emphasized Printing Off" :> <<27, 73>>)
  @@ ("Enhanced Printing On" :> <<27, 72>>)
  @@ ("Enhanced Printing Off" :> <<27, 73>>)
  @@ ("Underline Printing On" :> <<27, 45, 1>>)
  @@ ("Underline Printing Off" :> <<27, 45, 0>>)
  @@ ("Unidirectional Printing On" :> <<27, 45, 2>>)
  @@ ("Unidirectional Printing Off" :> <<27, 45, 0>>)
  @@ ("Form Feed" :> <<12>>)
  @@ ("Horizontal Tab" :> <<9>>)
  @@ ("Vertical Tab" :> <<11>>)
  @@ ("Line Feed" :> <<13>>)
  @@ ("Line Feed w/o CR" :> <<27, 18>>)
  @@ ("Reverse Line Feed" :> <<27, 10>>)
  @@ ("Set Spacing to 1/6\"" :> <<27, 54>>)
  @@ ("Set Spacing to 1/8\"" :> <<27, 56>>)
  @@ ("Print Quality Select HSD/SSD" :> <<27, 35, 48>>)
  @@ ("Select NLQ Courier" :> <<27, 49>>)
  @@ ("Select NLQ Gothic" :> <<27, 51>>)
  @@ ("Print Speed Set to Full" :> <<27, 62>>)
  @@ ("Print Speed Set to Half" :> <<27, 60>>)
  @@ ("Proportional Printing On" :> <<27, 89>>)
  @@ ("Proportional Printing Off" :> <<27, 90>>)
  @@ ("Reset (Clear Print Buffer)" :> <<24>>)
  @@ ("Shift In" :> <<15>>)
  @@ ("Shift Out" :> <<14>>)

\* the entries of the dictionary that hold a fixed byte string
OKIDATA_COMMANDS ==
  [n \in {"Backspace", "Carriage Return", "Select 10 cpi", "Select 12 cpi",
          "Select 15 cpi", "Select 17.1 cpi", "Select 20 cpi",
          "Standard Character Set", "Block Graphic Set", "Publisher Set",
          "Line Graphics Set", "Select Utility", "Slashed Zero",
          "Unslashed Zero", "Double Height On", "Double Height Off",
          "Double Width On", "Double Width Off", "Emphasized Printing On",
          "Emphasized Printing Off", "Enhanced Printing On",
          "Enhanced Printing Off", "Underline Printing On",
          "Underline Printing Off", "Unidirectional Printing On",
          "Unidirectional Printing Off", "Form Feed", "Horizontal Tab",
          "Vertical Tab", "Line Feed", "Line Feed w/o CR",
          "Reverse Line Feed", "Set Spacing to 1/6\"", "Set Spacing to 1/8\"",
          "Print Quality Select HSD/SSD", "Select NLQ Courier",
          "Select NLQ Gothic", "Print Speed Set to Full",
          "Print Speed Set to Half", "Proportional Printing On",
          "Proportional Printing Off", "Reset (Clear Print Buffer)",
          "Shift In", "Shift Out"} |->
     CASE n = "Backspace" -> <<8>>
       [] n = "Carriage Return" -> <<13>>
       [] n = "Select 10 cpi" -> <<30>>
       [] n = "Select 12 cpi" -> <<28>>
       [] n = "Select 15 cpi" -> <<27, 103>>
       [] n = "Select 17.1 cpi" -> <<29>>
       [] n = "Select 20 cpi" -> <<27, 35, 51>>
       [] n = "Standard Character Set" -> <<27, 33, 48>>
       [] n = "Block Graphic Set" -> <<27, 33, 49>>
       [] n = "Publisher Set" -> <<27, 33, 90>>
       [] n = "Line Graphics Set" -> <<27, 33, 50>>
       [] n = "Select Utility" -> <<27, 48>>
       [] n = "Slashed Zero" -> <<27, 33, 64>>
       [] n = "Unslashed Zero" -> <<27, 33, 65>>
       [] n = "Double Height On" -> <<27, 31, 49>>
       [] n = "Double Height Off" -> <<27, 31, 48>>
       [] n = "Double Width On" -> <<31>>
       [] n = "Double Width Off" -> <<27, 33, 48>>
       [] n = "Emphasized Printing On" -> <<27, 84>>
       [] n = "Emphasized Printing Off" -> <<27, 73>>
       [] n = "Enhanced Printing On" -> <<27, 72>>
       [] n = "Enhanced Printing Off" -> <<27, 73>>
       [] n = "Underline Printing On" -> <<27, 45, 1>>
       [] n = "Underline Printing Off" -> <<27, 45, 0>>
       [] n = "Unidirectional Printing On" -> <<27, 45, 2>>
       [] n = "Unidirectional Printing Off" -> <<27, 45, 0>>
       [] n = "Form Feed" -> <<12>>
       [] n = "Horizontal Tab" -> <<9>>
       [] n = "Vertical Tab" -> <<11>>
       [] n = "Line Feed" -> <<10>>
       [] n = "Line Feed w/o CR" -> <<27, 18>>
       [] n = "Reverse Line Feed" -> <<27, 10>>
       [] n = "Set Spacing to 1/6\"" -> <<27, 54>>
       [] n = "Set Spacing to 1/8\"" -> <<27, 56>>
       [] n = "Print Quality Select HSD/SSD" -> <<27, 35, 48>>
       [] n = "Select NLQ Courier" -> <<27, 49>>
       [] n = "Select NLQ Gothic" -> <<27, 51>>
       [] n = "Print Speed Set to Full" -> <<27, 62>>
       [] n = "Print Speed Set to Half" -> <<27, 60>>
       [] n = "Proportional Printing On" -> <<27, 89>>
       [] n = "Proportional Printing Off" -> <<27, 90>>
       [] n = "Reset (Clear Print Buffer)" -> <<24>>
       [] n = "Shift In" -> <<15>>
       [] n = "Shift Out" -> <<14>>]

\* OKIDATA_COMMANDS["Set Spacing to n/144"]: lambda n
SetSpacingN144(n) == <<27, 37, 57>> \o <<n>>

SkipOverPerforation_once(n) ==
  IF n = 0 THEN <<27, 37, 83, 48>> ELSE <<27, 71>> \o <<n>>

\* OKIDATA_COMMANDS["Skip Over Perforation"]: lambda n
SkipOverPerforation(n) ==
  IF n = 0 THEN <<27, 37, 83, 48>> ELSE <<27, 71>> \o <<n>> \o <<n>>

(* --------------------------- str.encode ------------------------------- *)
\* the UTF-8 encoding of one code point
Utf8Char(cp) ==
  IF cp < 128 THEN <<cp>>
  ELSE IF cp < 2048 THEN <<192 + (cp \div 64), 128 + (cp % 64)>>
  ELSE IF cp < 65536
    THEN <<224 + (cp \div 4096), 128 + ((cp \div 64) % 64), 128 + (cp % 64)>>
  ELSE <<240 + (cp \div 262144), 128 + ((cp \div 4096) % 64),
         128 + ((cp \div 64) % 64), 128 + (cp % 64)>>

\* text.encode('utf-8')
RECURSIVE Utf8(_)
Utf8(s) == IF s = <<>> THEN <<>> ELSE Utf8Char(Head(s)) \o Utf8(Tail(s))

\* int(self.port_entry.get()) succeeds (decimal digits only)
PortIsInt(s) == Len(s) > 0 /\ \A i \in 1..Len(s) : s[i] \in 48..57

(* ------------------------------ state --------------------------------- *)
VARIABLES
  toggles,            \* the nine BooleanVars of the checkboxes, by feature
  cpi_var, font_var, spacing_var, spacing_n, quality_var, speed_var,
  skip_perforation, left_margin_count, zero_mode,
  mode_var, debug_mode, port_entry,
  text,               \* the lines of the text widget; the cursor is at the end
  timers,             \* master.after callbacks, in dispatch order
  commits,            \* one record per Return: what it has transmitted so far
  last,               \* the event handled by the latest step
  out,                \* the transmissions made while handling it, in order
  ops,                \* user events the behaviour may still handle
  fails,              \* failing connections the behaviour may still meet
  right_margin_var,   \* the content of the right-margin entry
  line_length_display,\* the label: the length shown (1/100 in) and its colour
  stderr              \* the exception a callback let escape, "" when none

settings == <<cpi_var, font_var, spacing_var, spacing_n, quality_var, speed_var,
              skip_perforation, left_margin_count, zero_mode>>
config == <<mode_var, debug_mode, port_entry>>
screen == <<right_margin_var, line_length_display, stderr>>
vars == <<toggles, settings, config, text, timers, commits, last, out, ops, fails,
          screen>>

Get_placeholder(name, default) ==
  IF name \in DOMAIN OKIDATA_COMMANDS THEN OKIDATA_COMMANDS[name] ELSE <<63>>

\* OKIDATA_COMMANDS.get(name, default)
Get(name, default) ==
  IF name \in DOMAIN OKIDATA_COMMANDS THEN OKIDATA_COMMANDS[name] ELSE default

Features == {"italic", "emphasized", "underline", "unidirectional", "enhanced",
             "double_height", "proportional", "double_wide", "shift"}
CpiChoices == {"10 cpi", "12 cpi", "15 cpi", "17.1 cpi", "20 cpi"}
FontChoices == {"Block Graphic Set", "Publisher Set", "Line Graphics Set",
                "Standard Character Set"}
SpacingChoices == {"1/6", "1/8", "n/144"}
QualityChoices == {"HSD/SSD", "NLQ Courier", "NLQ Gothic", "Utility"}
SpeedChoices == {"Full", "Half"}
ZeroChoices == {"Slashed Zero", "Unslashed Zero"}
ModeChoices == {"Live", "Line-by-Line"}
ManualButtons == {"Line Feed", "Carriage Return", "Form Feed", "Horizontal Tab",
                  "Backspace", "Vertical Tab", "Reverse Line Feed",
                  "Reset (Clear Print Buffer)"}
\* what the user types into the port entry: "9100" or "91x"
PortInputs == {DEFAULT_PORT, <<57, 49, 120>>}
\* what the user types into the right-margin entry
RightMarginInputs == {"7.5", "1.0", "0.5", "0.25", "wide"}
\* what the user types into the n/144 entry
SpacingNInputs == {9, 72}
\* key presses in the text widget: keysym and event.char (<<>> when empty)
KeyInputs == {[keysym |-> "Tab", char |-> <<9>>],
              [keysym |-> "BackSpace", char |-> <<8>>],
              [keysym |-> "Escape", char |-> <<27>>],
              [keysym |-> "Shift_L", char |-> <<>>],
              [keysym |-> "Delete", char |-> <<127>>],
              [keysym |-> "space", char |-> <<32>>],
              [keysym |-> "eacute", char |-> <<233>>]}

\* the outcomes of the n connections a handler opens, in order
NetOutcomes(n) ==
  LET failing == UNION {{ {a[i] : i \in 1..k} : a \in [1..k -> 1..n] } : k \in 0..fails}
  IN {[i \in 1..n |-> IF i \in S THEN "fail" ELSE "ok"] : S \in failing}

(* ---------------------------- transport ------------------------------- *)
\* one line of the debug panel
LogLine(tag, kind, bytes) == [tag |-> tag, kind |-> kind, bytes |-> bytes]

\* send_command_immediately(command_bytes, tag) with the connection's outcome
send_command_immediately(command_bytes, tag, net) ==
  LET shown == IF debug_mode THEN <<LogLine(tag, "bytes", command_bytes)>> ELSE <<>>
  IN IF ~PortIsInt(port_entry)
       THEN [tag |-> tag, bytes |-> command_bytes, res |-> "badport",
             log |-> shown, dialog |-> "Invalid port number."]
     ELSE IF net = "ok"
       THEN [tag |-> tag, bytes |-> command_bytes, res |-> "sent",
             log |-> shown, dialog |-> ""]
     ELSE [tag |-> tag, bytes |-> command_bytes, res |-> "error",
           log |-> shown \o <<LogLine(tag, "error", <<>>)>>, dialog |-> ""]

send_live_command_when_debugging(command_bytes, net) ==
  LET tag == "[Live Keystroke]"
      shown == IF debug_mode THEN <<LogLine(tag, "bytes", command_bytes)>> ELSE <<>>
  IN IF ~PortIsInt(port_entry)
       THEN [tag |-> tag, bytes |-> command_bytes, res |-> "badport",
             log |-> shown, dialog |-> "Invalid port number."]
     ELSE IF ~debug_mode
       THEN [tag |-> tag, bytes |-> <<>>, res |-> "sent", log |-> <<>>, dialog |-> ""]
     ELSE IF net = "ok"
       THEN [tag |-> tag, bytes |-> command_bytes, res |-> "sent",
             log |-> shown, dialog |-> ""]
     ELSE [tag |-> tag, bytes |-> command_bytes, res |-> "error",
           log |-> shown \o <<LogLine(tag, "error", <<>>)>>, dialog |-> ""]

\* send_live_command(command_bytes) with the connection's outcome
send_live_command(command_bytes, net) ==
  LET tag == "[Live Keystroke]"
      shown == IF debug_mode THEN <<LogLine(tag, "bytes", command_bytes)>> ELSE <<>>
  IN IF ~PortIsInt(port_entry)
       THEN [tag |-> tag, bytes |-> command_bytes, res |-> "badport",
             log |-> shown, dialog |-> "Invalid port number."]
     ELSE IF net = "ok"
       THEN [tag |-> tag, bytes |-> command_bytes, res |-> "sent",
             log |-> shown, dialog |-> ""]
     ELSE [tag |-> tag, bytes |-> command_bytes, res |-> "error",
           log |-> shown \o <<LogLine(tag, "error", <<>>)>>, dialog |-> ""]

\* "if command: send_command_immediately(command, tag)"
SendIfAny(command, tag, net) ==
  IF command # <<>> THEN <<send_command_immediately(command, tag, net)>> ELSE <<>>

\* "if command: send_live_command(command)"
SendLiveIfAny(command, net) ==
  IF command # <<>> THEN <<send_live_command(command, net)>> ELSE <<>>

(* --------------------- manual commands and shift ---------------------- *)
send_manual_command_deferred(cmd_name, net) == <<>>

\* send_manual_command(cmd_name)
send_manual_command(cmd_name, net) == SendLiveIfAny(Get(cmd_name, <<>>), net)

\* send_shift(), reading shift_state
send_shift(shift_state, net) ==
  LET command == IF shift_state THEN Get("Shift In", <<>>) ELSE Get("Shift Out", <<>>)
  IN SendLiveIfAny(command, net)

(* ------------------------- setting handlers --------------------------- *)
\* apply_font(), reading font_var
apply_font(font, net) ==
  LET command ==
        IF font = "Block Graphic Set" THEN Get("Block Graphic Set", <<>>)
        ELSE IF font = "Publisher Set" THEN Get("Publisher Set", <<>>)
        ELSE IF font = "Line Graphics Set" THEN Get("Line Graphics Set", <<>>)
        ELSE IF font = "Standard Character Set" THEN Get("Standard Character Set", <<>>)
        ELSE <<>>
  IN SendIfAny(command, "[Character Set]", net)

\* apply_cpi(), reading cpi_var
apply_cpi(cpi, net) ==
  IF cpi # "Double Wide"
    THEN SendIfAny(Get("Select " \o cpi, <<>>), "[CPI]", net)
    ELSE <<>>

\* apply_spacing(), reading spacing_var and spacing_n
apply_spacing(spacing, n_val, net) ==
  LET command ==
        IF spacing = "1/6" THEN Get("Set Spacing to 1/6\"", <<>>)
        ELSE IF spacing = "1/8" THEN Get("Set Spacing to 1/8\"", <<>>)
        ELSE IF spacing = "n/144" THEN SetSpacingN144(n_val)
        ELSE <<>>
  IN SendIfAny(command, "[Spacing]", net)

\* apply_quality(), reading quality_var
apply_quality(quality, net) ==
  LET command ==
        IF quality = "HSD/SSD" THEN Get("Print Quality Select HSD/SSD", <<>>)
        ELSE IF quality = "NLQ Courier" THEN Get("Select NLQ Courier", <<>>)
        ELSE IF quality = "NLQ Gothic" THEN Get("Select NLQ Gothic", <<>>)
        ELSE IF quality = "Utility" THEN Get("Select Utility", <<>>)
        ELSE <<>>
  IN SendIfAny(command, "[Quality]", net)

\* apply_speed(), reading speed_var
apply_speed(speed, net) ==
  LET command ==
        IF speed = "Full" THEN Get("Print Speed Set to Full", <<>>)
        ELSE IF speed = "Half" THEN Get("Print Speed Set to Half", <<>>)
        ELSE <<>>
  IN SendIfAny(command, "[Speed]", net)

\* apply_double_height(), reading double_height
apply_double_height(double_height, net) ==
  LET command == IF double_height THEN Get("Double Height On", <<>>)
                 ELSE Get("Double Height Off", <<>>)
  IN SendIfAny(command, "[Double Height]", net)

apply_proportional_both(proportional, net) ==
  IF proportional
    THEN SendIfAny(Get("Proportional Printing On", <<>>), "[Proportional]", net)
    ELSE SendIfAny(Get("Proportional Printing On", <<>>), "[Proportional]", net)
         \o SendIfAny(Get("Proportional Printing Off", <<>>), "[Proportional]", net)

\* apply_proportional(), reading proportional
apply_proportional(proportional, net) ==
  LET command == IF proportional THEN Get("Proportional Printing On", <<>>)
                 ELSE Get("Proportional Printing Off", <<>>)
  IN SendIfAny(command, "[Proportional]", net)

\* apply_skip_over_perforation(), reading skip_perforation: sends unconditionally
apply_skip_over_perforation(value, net) ==
  <<send_command_immediately(SkipOverPerforation(value), "[Skip Over Perforation]", net)>>

\* apply_underline(), reading underline_printing
apply_underline(underline_printing, net) ==
  LET command == IF underline_printing THEN Get("Underline Printing On", <<>>)
                 ELSE Get("Underline Printing Off", <<>>)
  IN SendIfAny(command, "[Underline Printing]", net)

\* apply_unidirectional(), reading unidirectional
apply_unidirectional(unidirectional, net) ==
  LET command == IF unidirectional THEN Get("Unidirectional Printing On", <<>>)
                 ELSE Get("Unidirectional Printing Off", <<>>)
  IN SendIfAny(command, "[Unidirectional Printing]", net)

toggle_italic_swapped(option_italic, net) ==
  LET command == IF option_italic THEN <<27, 33, 42>> ELSE <<27, 33, 47>>
  IN SendIfAny(command, "[Italic]", net)

\* toggle_italic(), reading option_italic
toggle_italic(option_italic, net) ==
  LET command == IF option_italic THEN <<27, 33, 47>> ELSE <<27, 33, 42>>
  IN SendIfAny(command, "[Italic]", net)

\* toggle_emphasized(), reading option_emphasized
toggle_emphasized(option_emphasized, net) ==
  LET command == IF option_emphasized THEN Get("Emphasized Printing On", <<>>)
                 ELSE Get("Emphasized Printing Off", <<>>)
  IN SendIfAny(command, "[Emphasized]", net)

toggle_enhanced_as_emphasized(enhanced_state, net) ==
  LET command == IF enhanced_state THEN Get("Emphasized Printing On", <<>>)
                 ELSE Get("Emphasized Printing Off", <<>>)
  IN SendIfAny(command, "[Emphasized]", net)

\* toggle_enhanced(), reading enhanced_state
toggle_enhanced(enhanced_state, net) ==
  LET command == IF enhanced_state THEN Get("Enhanced Printing On", <<>>)
                 ELSE Get("Enhanced Printing Off", <<>>)
  IN SendIfAny(command, "[Enhanced Printing]", net)

toggle_double_wide_off_entry(double_wide, cpi, net) ==
  IF double_wide
    THEN SendIfAny(Get("Double Width On", <<>>), "[Double Wide ON]", net)
    ELSE SendIfAny(Get("Double Width Off", <<>>), "[Double Wide OFF]", net)

\* toggle_double_wide(), reading double_wide and cpi_var
toggle_double_wide(double_wide, cpi, net) ==
  IF double_wide
    THEN SendIfAny(Get("Double Width On", <<>>), "[Double Wide ON]", net)
    ELSE apply_cpi(cpi, net)

\* apply_zero(), reading zero_mode
apply_zero(zero, net) ==
  IF zero = "Slashed Zero"
    THEN SendIfAny(Get("Slashed Zero", <<>>), "[Slashed Zero]", net)
    ELSE SendIfAny(Get("Unslashed Zero", <<>>), "[Unslashed Zero]", net)

\* the command= callback of each feature's Checkbutton, run on the new value
CheckbuttonCommand(f, value, cpi, net) ==
  CASE f = "italic" -> toggle_italic(value, net)
    [] f = "emphasized" -> toggle_emphasized(value, net)
    [] f = "underline" -> apply_underline(value, net)
    [] f = "unidirectional" -> apply_unidirectional(value, net)
    [] f = "enhanced" -> toggle_enhanced(value, net)
    [] f = "double_height" -> apply_double_height(value, net)
    [] f = "proportional" -> apply_proportional(value, net)
    [] f = "double_wide" -> toggle_double_wide(value, cpi, net)
    [] f = "shift" -> send_shift(value, net)

(* -------------------------- restore defaults -------------------------- *)
restore_defaults_any_port(cpi, skip_val, net) ==
  LET tag == "[Restore Defaults]"
      reset_cmd == Get("Reset (Clear Print Buffer)", <<>>)
      cpi_cmd == Get("Select " \o cpi, <<>>)
      skip_cmd == SkipOverPerforation(skip_val)
      full_cmd == reset_cmd \o cpi_cmd \o skip_cmd
      shown == IF debug_mode THEN <<LogLine(tag, "bytes", full_cmd)>> ELSE <<>>
  IN IF net = "ok"
       THEN <<[tag |-> tag, bytes |-> full_cmd, res |-> "sent",
               log |-> shown, dialog |-> ""]>>
     ELSE <<[tag |-> tag, bytes |-> full_cmd, res |-> "error",
             log |-> shown, dialog |-> "Failed to send default commands"]>>

\* restore_defaults(), reading cpi_var and skip_perforation: one buffer
restore_defaults(cpi, skip_val, net) ==
  LET tag == "[Restore Defaults]"
      reset_cmd == Get("Reset (Clear Print Buffer)", <<>>)
      cpi_cmd == Get("Select " \o cpi, <<>>)
      skip_cmd == SkipOverPerforation(skip_val)
      full_cmd == reset_cmd \o cpi_cmd \o skip_cmd
      shown == IF debug_mode THEN <<LogLine(tag, "bytes", full_cmd)>> ELSE <<>>
  IN IF ~PortIsInt(port_entry)
       THEN <<[tag |-> tag, bytes |-> <<>>, res |-> "badport",
               log |-> <<>>, dialog |-> "Invalid port number."]>>
     ELSE IF net = "ok"
       THEN <<[tag |-> tag, bytes |-> full_cmd, res |-> "sent",
               log |-> shown, dialog |-> ""]>>
     ELSE <<[tag |-> tag, bytes |-> full_cmd, res |-> "error",
             log |-> shown, dialog |-> "Failed to send default commands"]>>

send_all_defaults_as_listed(tg, cpi, font, spacing, n_val, quality, speed, skip_val, net) ==
  restore_defaults(cpi, skip_val, net[1])
  \o apply_font(font, net[2])
  \o apply_spacing(spacing, n_val, net[4])
  \o apply_quality(quality, net[5])
  \o apply_speed(speed, net[6])
  \o apply_double_height(tg["double_height"], net[7])
  \o apply_proportional(tg["proportional"], net[8])

\* send_all_defaults(): net[i] is the outcome of its i-th connection
send_all_defaults(tg, cpi, font, spacing, n_val, quality, speed, skip_val, net) ==
  restore_defaults(cpi, skip_val, net[1])
  \o apply_font(font, net[2])
  \o apply_cpi(cpi, net[3])
  \o apply_spacing(spacing, n_val, net[4])
  \o apply_quality(quality, net[5])
  \o apply_speed(speed, net[6])
  \o apply_double_height(tg["double_height"], net[7])
  \o apply_proportional(tg["proportional"], net[8])
  \o apply_skip_over_perforation(skip_val, net[9])

(* ---------------------------- text widget ----------------------------- *)
\* text.get("insert linestart", "insert lineend")
CurrentLine(t) == t[Len(t)]

\* text.insert("insert", "\n")
InsertNewline(t) == Append(t, <<>>)

\* the Text class binding that runs after the widget's own <KeyPress> binding
TextClassBinding(t, keysym, char) ==
  IF keysym = "BackSpace"
    THEN IF CurrentLine(t) # <<>>
           THEN [t EXCEPT ![Len(t)] = SubSeq(@, 1, Len(@) - 1)]
         ELSE IF Len(t) > 1 THEN SubSeq(t, 1, Len(t) - 1)
         ELSE t
  ELSE IF keysym = "Return" THEN InsertNewline(t)
  ELSE IF keysym = "Delete" THEN t   \* nothing follows the cursor
  ELSE IF keysym = "Tab" \/ (char # <<>> /\ char[1] >= 32)
    THEN [t EXCEPT ![Len(t)] = @ \o char]
  ELSE t

(* --------------------------- line length ------------------------------ *)
FloatOfCpi_zero_as_ten(cpi) ==
  CASE cpi = "10 cpi" -> [ok |-> TRUE, tenths |-> 100]
    [] cpi = "12 cpi" -> [ok |-> TRUE, tenths |-> 120]
    [] cpi = "15 cpi" -> [ok |-> TRUE, tenths |-> 150]
    [] cpi = "17.1 cpi" -> [ok |-> TRUE, tenths |-> 171]
    [] cpi = "20 cpi" -> [ok |-> TRUE, tenths |-> 200]
    [] OTHER -> [ok |-> FALSE, tenths |-> 0]

\* float(cpi_var.get().split()[0]) in tenths; ok is FALSE where float() raises
\* ValueError. "0 cpi" and "Double Wide" are values no radio button sets.
FloatOfCpi(cpi) ==
  CASE cpi = "10 cpi" -> [ok |-> TRUE, tenths |-> 100]
    [] cpi = "12 cpi" -> [ok |-> TRUE, tenths |-> 120]
    [] cpi = "15 cpi" -> [ok |-> TRUE, tenths |-> 150]
    [] cpi = "17.1 cpi" -> [ok |-> TRUE, tenths |-> 171]
    [] cpi = "20 cpi" -> [ok |-> TRUE, tenths |-> 200]
    [] cpi = "0 cpi" -> [ok |-> TRUE, tenths |-> 0]
    [] OTHER -> [ok |-> FALSE, tenths |-> 0]

\* float(right_margin_var.get()) in hundredths; ok is FALSE where it raises
FloatOfMargin(entry) ==
  CASE entry = "7.5" -> [ok |-> TRUE, hundredths |-> 750]
    [] entry = "1.0" -> [ok |-> TRUE, hundredths |-> 100]
    [] entry = "0.5" -> [ok |-> TRUE, hundredths |-> 50]
    [] entry = "0.25" -> [ok |-> TRUE, hundredths |-> 25]
    [] OTHER -> [ok |-> FALSE, hundredths |-> 0]

\* a / b on floats, as the exact quotient a.num / (a.den * b.num / b.den)
Divide(a, b) ==
  IF b.num = 0 THEN [exc |-> "ZeroDivisionError", num |-> 0, den |-> 1]
  ELSE [exc |-> "", num |-> a.num * b.den, den |-> a.den * b.num]

\* f"{x:.2f}": x to the nearest hundredth, as a number of hundredths
Format2f(x) == (200 * x.num + x.den) \div (2 * x.den)

update_line_length_display_unguarded(line_text, cpi, double_wide, margin, right) ==
  LET char_count == Len(line_text)
      parsed == FloatOfCpi(cpi)
      numeric_cpi == IF parsed.ok THEN [num |-> parsed.tenths, den |-> 10]
                     ELSE [num |-> 10, den |-> 1]
      effective_cpi == IF double_wide
                         THEN [num |-> numeric_cpi.num, den |-> 2 * numeric_cpi.den]
                         ELSE numeric_cpi
      tabs == Divide([num |-> 8 * margin, den |-> 1], numeric_cpi)
      chars == Divide([num |-> char_count, den |-> 1], effective_cpi)
      line_length == [num |-> tabs.num * chars.den + chars.num * tabs.den,
                      den |-> tabs.den * chars.den]
      margin_in == FloatOfMargin(right)
      right_margin == IF margin_in.ok THEN margin_in.hundredths ELSE 750
      gap == right_margin * line_length.den - 100 * line_length.num
      color == IF gap >= 50 * line_length.den THEN "green"
               ELSE IF 0 <= gap /\ gap < 50 * line_length.den THEN "yellow"
               ELSE "red"
  IN [exc |-> IF tabs.exc # "" THEN tabs.exc ELSE chars.exc,
      text |-> Format2f(line_length), bg |-> color]

update_line_length_display_green_from_zero(line_text, cpi, double_wide, margin, right) ==
  LET char_count == Len(line_text)
      parsed == FloatOfCpi(cpi)
      numeric_cpi == IF parsed.ok THEN [num |-> parsed.tenths, den |-> 10]
                     ELSE [num |-> 10, den |-> 1]
      effective_cpi == IF double_wide
                         THEN [num |-> numeric_cpi.num, den |-> 2 * numeric_cpi.den]
                         ELSE numeric_cpi
      tabs == Divide([num |-> 8 * margin, den |-> 1], numeric_cpi)
      chars == Divide([num |-> char_count, den |-> 1], effective_cpi)
      line_length == IF tabs.exc = "ZeroDivisionError" \/ chars.exc = "ZeroDivisionError"
                       THEN [num |-> 0, den |-> 1]
                       ELSE [num |-> tabs.num * chars.den + chars.num * tabs.den,
                             den |-> tabs.den * chars.den]
      margin_in == FloatOfMargin(right)
      right_margin == IF margin_in.ok THEN margin_in.hundredths ELSE 750
      gap == right_margin * line_length.den - 100 * line_length.num
      color == IF gap >= 0 THEN "green" ELSE "red"
  IN [exc |-> "", text |-> Format2f(line_length), bg |-> color]

update_line_length_display_wide_margin(line_text, cpi, double_wide, margin, right) ==
  LET char_count == Len(line_text)
      parsed == FloatOfCpi(cpi)
      numeric_cpi == IF parsed.ok THEN [num |-> parsed.tenths, den |-> 10]
                     ELSE [num |-> 10, den |-> 1]
      effective_cpi == IF double_wide
                         THEN [num |-> numeric_cpi.num, den |-> 2 * numeric_cpi.den]
                         ELSE numeric_cpi
      tabs == Divide([num |-> 8 * margin, den |-> 1], effective_cpi)
      chars == Divide([num |-> char_count, den |-> 1], effective_cpi)
      line_length == IF tabs.exc = "ZeroDivisionError" \/ chars.exc = "ZeroDivisionError"
                       THEN [num |-> 0, den |-> 1]
                       ELSE [num |-> tabs.num * chars.den + chars.num * tabs.den,
                             den |-> tabs.den * chars.den]
      margin_in == FloatOfMargin(right)
      right_margin == IF margin_in.ok THEN margin_in.hundredths ELSE 750
      gap == right_margin * line_length.den - 100 * line_length.num
      color == IF gap >= 50 * line_length.den THEN "green"
               ELSE IF 0 <= gap /\ gap < 50 * line_length.den THEN "yellow"
               ELSE "red"
  IN [exc |-> "", text |-> Format2f(line_length), bg |-> color]

\* update_line_length_display(), reading the text widget's current line,
\* cpi_var, double_wide, left_margin_count and right_margin_var
update_line_length_display(line_text, cpi, double_wide, margin, right) ==
  LET char_count == Len(line_text)
      parsed == FloatOfCpi(cpi)
      numeric_cpi == IF parsed.ok THEN [num |-> parsed.tenths, den |-> 10]
                     ELSE [num |-> 10, den |-> 1]
      effective_cpi == IF double_wide
                         THEN [num |-> numeric_cpi.num, den |-> 2 * numeric_cpi.den]
                         ELSE numeric_cpi
      tabs == Divide([num |-> 8 * margin, den |-> 1], numeric_cpi)
      chars == Divide([num |-> char_count, den |-> 1], effective_cpi)
      \* except ZeroDivisionError: line_length = 0.0
      line_length == IF tabs.exc = "ZeroDivisionError" \/ chars.exc = "ZeroDivisionError"
                       THEN [num |-> 0, den |-> 1]
                       ELSE [num |-> tabs.num * chars.den + chars.num * tabs.den,
                             den |-> tabs.den * chars.den]
      margin_in == FloatOfMargin(right)
      right_margin == IF margin_in.ok THEN margin_in.hundredths ELSE 750
      \* gap = right_margin - line_length, times 100 * line_length.den
      gap == right_margin * line_length.den - 100 * line_length.num
      color == IF gap >= 50 * line_length.den THEN "green"
               ELSE IF 0 <= gap /\ gap < 50 * line_length.den THEN "yellow"
               ELSE "red"
  IN [exc |-> "", text |-> Format2f(line_length), bg |-> color]

\* the label and stderr once the callback that ran update_line_length_display
\* has returned r: an escaping exception leaves the label as it was
Shows(r) ==
  IF r.exc = ""
    THEN /\ line_length_display' = [text |-> r.text, bg |-> r.bg]
         /\ stderr' = stderr
    ELSE /\ line_length_display' = line_length_display
         /\ stderr' = r.exc

(* ----------------------------- keystrokes ----------------------------- *)
handle_key_any_mode(keysym, char, mode, net) ==
  IF keysym = "Return" THEN <<>>
  ELSE LET command ==
             IF keysym = "Tab" THEN Get("Horizontal Tab", <<9>>)
             ELSE IF keysym = "BackSpace" THEN Get("Backspace", <<8>>)
             ELSE IF char # <<>> /\ char[1] >= 32 THEN Utf8(char)
             ELSE <<>>
       IN SendLiveIfAny(command, net)

handle_key_above_space(keysym, char, mode, net) ==
  IF keysym = "Return" THEN <<>>
  ELSE IF mode = "Live"
    THEN LET command ==
               IF keysym = "Tab" THEN Get("Horizontal Tab", <<9>>)
               ELSE IF keysym = "BackSpace" THEN Get("Backspace", <<8>>)
               ELSE IF char # <<>> /\ char[1] > 32 THEN Utf8(char)
               ELSE <<>>
         IN SendLiveIfAny(command, net)
  ELSE <<>>

\* handle_key(event), reading mode_var
handle_key(keysym, char, mode, net) ==
  IF keysym = "Return" THEN <<>>
  ELSE IF mode = "Live"
    THEN LET command ==
               IF keysym = "Tab" THEN Get("Horizontal Tab", <<9>>)
               ELSE IF keysym = "BackSpace" THEN Get("Backspace", <<8>>)
               ELSE IF char # <<>> /\ char[1] >= 32 THEN Utf8(char)
               ELSE <<>>
         IN SendLiveIfAny(command, net)
  ELSE <<>>

(* ------------------------------- timers ------------------------------- *)
LF_DELAY == 10
MARGIN_DELAY == 20
TEXT_DELAY == 30
STARTUP_DELAY == 500

\* the connections send_all_defaults opens
DefaultsSends == 9

Timer(delay, cb, id, arg) == [delay |-> delay, cb |-> cb, id |-> id, arg |-> arg]

\* master.after(ms, callback): Tcl keeps the timer list sorted by due time and
\* puts a new timer behind those that are due at the same time
After(ts, t) ==
  LET k == Cardinality({i \in 1..Len(ts) : ts[i].delay <= t.delay})
  IN SubSeq(ts, 1, k) \o <<t>> \o SubSeq(ts, k + 1, Len(ts))

AfterAll_superseding(ts, new) == new

RECURSIVE AfterAll(_, _)
AfterAll(ts, new) ==
  IF new = <<>> THEN ts ELSE AfterAll(After(ts, Head(new)), Tail(new))

\* LF_DELAY of time passes.  The offsets of a Return are multiples of
\* LF_DELAY; a remaining delay above TEXT_DELAY lies behind every step a Return
\* can schedule, and is kept as it is until it comes within TEXT_DELAY (near).
Elapse(ts, near) ==
  [i \in 1..Len(ts) |->
     IF ts[i].delay > TEXT_DELAY
       THEN IF near THEN [ts[i] EXCEPT !.delay = TEXT_DELAY] ELSE ts[i]
     ELSE IF ts[i].delay > LF_DELAY THEN [ts[i] EXCEPT !.delay = @ - LF_DELAY]
     ELSE [ts[i] EXCEPT !.delay = 0]]

(* ------------------------------- Return ------------------------------- *)
handle_return_text_first(mode, line_text, id, net) ==
  LET cr == Get("Carriage Return", <<13>>)
      lf == Get("Line Feed", <<10>>)
  IN IF mode = "Line-by-Line"
       THEN [sent |-> <<send_live_command(cr, net)>>,
             after |-> <<Timer(LF_DELAY, "send_live_command", id, lf),
                         Timer(TEXT_DELAY, "send_left_margin", id, <<>>),
                         Timer(MARGIN_DELAY, "send_live_command", id, Utf8(line_text))>>,
             newline |-> TRUE]
     ELSE [sent |-> <<send_live_command(cr, net)>>,
           after |-> <<Timer(LF_DELAY, "send_live_command", id, lf),
                       Timer(MARGIN_DELAY, "send_left_margin", id, <<>>)>>,
           newline |-> FALSE]

handle_return_always_text(mode, line_text, id, net) ==
  LET cr == Get("Carriage Return", <<13>>)
      lf == Get("Line Feed", <<10>>)
  IN [sent |-> <<send_live_command(cr, net)>>,
      after |-> <<Timer(LF_DELAY, "send_live_command", id, lf),
                  Timer(MARGIN_DELAY, "send_left_margin", id, <<>>),
                  Timer(TEXT_DELAY, "send_live_command", id, Utf8(line_text))>>,
      newline |-> mode = "Line-by-Line"]

handle_return_reads_after_insert(mode, line_text, id, net) ==
  LET cr == Get("Carriage Return", <<13>>)
      lf == Get("Line Feed", <<10>>)
  IN IF mode = "Line-by-Line"
       THEN [sent |-> <<send_live_command(cr, net)>>,
             after |-> <<Timer(LF_DELAY, "send_live_command", id, lf),
                         Timer(MARGIN_DELAY, "send_left_margin", id, <<>>),
                         Timer(TEXT_DELAY, "send_live_command", id,
                               Utf8(CurrentLine(InsertNewline(<<line_text>>))))>>,
             newline |-> TRUE]
     ELSE [sent |-> <<send_live_command(cr, net)>>,
           after |-> <<Timer(LF_DELAY, "send_live_command", id, lf),
                       Timer(MARGIN_DELAY, "send_left_margin", id, <<>>)>>,
           newline |-> FALSE]

handle_return_line_feed_twice(mode, line_text, id, net) ==
  LET cr == Get("Carriage Return", <<13>>)
      lf == Get("Line Feed", <<10>>)
  IN IF mode = "Line-by-Line"
       THEN [sent |-> <<send_live_command(cr, net)>>,
             after |-> <<Timer(LF_DELAY, "send_live_command", id, lf),
                         Timer(LF_DELAY, "send_live_command", id, lf),
                         Timer(MARGIN_DELAY, "send_left_margin", id, <<>>),
                         Timer(TEXT_DELAY, "send_live_command", id, Utf8(line_text))>>,
             newline |-> TRUE]
     ELSE [sent |-> <<send_live_command(cr, net)>>,
           after |-> <<Timer(LF_DELAY, "send_live_command", id, lf),
                       Timer(LF_DELAY, "send_live_command", id, lf),
                       Timer(MARGIN_DELAY, "send_left_margin", id, <<>>)>>,
           newline |-> FALSE]

\* handle_return(event), reading mode_var: the transmission it makes itself,
\* the callbacks it schedules and whether it inserts the newline
handle_return(mode, line_text, id, net) ==
  LET cr == Get("Carriage Return", <<13>>)
      lf == Get("Line Feed", <<10>>)
  IN IF mode = "Line-by-Line"
       THEN [sent |-> <<send_live_command(cr, net)>>,
             after |-> <<Timer(LF_DELAY, "send_live_command", id, lf),
                         Timer(MARGIN_DELAY, "send_left_margin", id, <<>>),
                         Timer(TEXT_DELAY, "send_live_command", id, Utf8(line_text))>>,
             newline |-> TRUE]
     ELSE [sent |-> <<send_live_command(cr, net)>>,
           after |-> <<Timer(LF_DELAY, "send_live_command", id, lf),
                       Timer(MARGIN_DELAY, "send_left_margin", id, <<>>)>>,
           newline |-> FALSE]

send_left_margin_stops(count, net) ==
  LET tabs == [i \in 1..count |-> send_live_command(Get("Horizontal Tab", <<9>>), net[i])]
      bad == {i \in 1..count : tabs[i].res # "sent"}
  IN IF bad = {} THEN tabs
     ELSE SubSeq(tabs, 1, CHOOSE i \in bad : \A j \in bad : i <= j)

\* send_left_margin(), reading left_margin_count: net[i] is the outcome of tab i
send_left_margin(count, net) ==
  [i \in 1..count |-> send_live_command(Get("Horizontal Tab", <<9>>), net[i])]

\* the commits that still have a callback waiting
Pending(id) == \E i \in 1..Len(timers) : timers[i].id = id
MarginPending(id) ==
  \E i \in 1..Len(timers) : timers[i].id = id /\ timers[i].cb = "send_left_margin"

(* -------------------------------- Init -------------------------------- *)
Event(op, f, n) == [op |-> op, f |-> f, n |-> n]

\* the state __init__ leaves: the variables' defaults, an empty text widget
\* and (Init) the startup callback master.after(500, self.send_all_defaults)
WidgetsAt(margin, mode, port, cpi, skip_val, double_wide) ==
  /\ toggles = [f \in Features |-> f = "double_wide" /\ double_wide]
  /\ cpi_var = cpi
  /\ font_var = "Block Graphic Set"
  /\ spacing_var = "1/6"
  /\ spacing_n = 9
  /\ quality_var = "HSD/SSD"
  /\ speed_var = "Full"
  /\ skip_perforation = skip_val
  /\ left_margin_count = margin
  /\ zero_mode = "Slashed Zero"
  /\ mode_var = mode
  /\ debug_mode = TRUE
  /\ port_entry = port
  /\ text = << <<>> >>
  /\ commits = <<>>
  /\ right_margin_var = DEFAULT_RIGHT_MARGIN
  /\ line_length_display = [text |-> 0, bg |-> "white"]
  /\ stderr = ""

WidgetsWith(margin, mode) ==
  WidgetsAt(margin, mode, DEFAULT_PORT, DEFAULT_CPI, DEFAULT_SKIP_PERFORATION, FALSE)

Widgets == WidgetsWith(DEFAULT_LEFT_MARGIN, "Line-by-Line")

Init ==
  /\ Widgets
  /\ timers = <<Timer(STARTUP_DELAY, "send_all_defaults", 0, <<>>)>>
  /\ last = Event("init", "", 0)
  /\ out = <<>>
  /\ ops = MaxOps
  /\ fails = MaxFail

(* ------------------------------ user events --------------------------- *)
\* the connections that failed among the transmissions sent
Errors(sent) == Cardinality({i \in 1..Len(sent) : sent[i].res = "error"})

\* a user event is handled: op names it, sent is what its handler transmitted
Handled(op, f, n, sent) ==
  /\ ops > 0
  /\ ops' = ops - 1
  /\ Errors(sent) <= fails
  /\ fails' = fails - Errors(sent)
  /\ last' = Event(op, f, n)
  /\ out' = sent

\* a click on the Checkbutton of feature f: Tk flips the variable, then runs
\* the feature's command
ToggleFeature(f) ==
  \E net \in {"ok", "fail"} :
    /\ toggles' = [toggles EXCEPT ![f] = ~@]
    /\ Handled("toggle", f, 0, CheckbuttonCommand(f, ~toggles[f], cpi_var, net))
    \* toggle_double_wide ends with self.update_line_length_display()
    /\ IF f = "double_wide"
         THEN Shows(update_line_length_display(CurrentLine(text), cpi_var,
                                               ~toggles[f], left_margin_count,
                                               right_margin_var))
         ELSE UNCHANGED <<line_length_display, stderr>>
    /\ UNCHANGED <<right_margin_var, settings, config, text, timers,
                   commits>>

\* a click on a CPI radio button
SelectCpi(c) ==
  \E net \in {"ok", "fail"} :
    /\ cpi_var' = c
    /\ Handled("cpi", c, 0, apply_cpi(c, net))
    /\ UNCHANGED <<screen, toggles, font_var, spacing_var, spacing_n, quality_var,
                   speed_var, skip_perforation, left_margin_count, zero_mode,
                   config, text, timers, commits>>

\* a click on a character-set radio button
SelectFont(c) ==
  \E net \in {"ok", "fail"} :
    /\ font_var' = c
    /\ Handled("font", c, 0, apply_font(c, net))
    /\ UNCHANGED <<screen, toggles, cpi_var, spacing_var, spacing_n, quality_var,
                   speed_var, skip_perforation, left_margin_count, zero_mode,
                   config, text, timers, commits>>

\* a click on a spacing radio button
SelectSpacing(c) ==
  \E net \in {"ok", "fail"} :
    /\ spacing_var' = c
    /\ Handled("spacing", c, 0, apply_spacing(c, spacing_n, net))
    /\ UNCHANGED <<screen, toggles, cpi_var, font_var, spacing_n, quality_var,
                   speed_var, skip_perforation, left_margin_count, zero_mode,
                   config, text, timers, commits>>

\* an edit of the n/144 entry (no command is bound to it)
EditSpacingN(n) ==
  /\ n # spacing_n
  /\ spacing_n' = n
  /\ Handled("spacing_n", "", n, <<>>)
  /\ UNCHANGED <<screen, toggles, cpi_var, font_var, spacing_var, quality_var,
                 speed_var, skip_perforation, left_margin_count, zero_mode,
                 config, text, timers, commits>>

\* a click on a print-quality radio button
SelectQuality(c) ==
  \E net \in {"ok", "fail"} :
    /\ quality_var' = c
    /\ Handled("quality", c, 0, apply_quality(c, net))
    /\ UNCHANGED <<screen, toggles, cpi_var, font_var, spacing_var, spacing_n,
                   speed_var, skip_perforation, left_margin_count, zero_mode,
                   config, text, timers, commits>>

\* a click on a speed radio button
SelectSpeed(c) ==
  \E net \in {"ok", "fail"} :
    /\ speed_var' = c
    /\ Handled("speed", c, 0, apply_speed(c, net))
    /\ UNCHANGED <<screen, toggles, cpi_var, font_var, spacing_var, spacing_n,
                   quality_var, skip_perforation, left_margin_count, zero_mode,
                   config, text, timers, commits>>

\* a click on a zero radio button
SelectZero(c) ==
  \E net \in {"ok", "fail"} :
    /\ zero_mode' = c
    /\ Handled("zero", c, 0, apply_zero(c, net))
    /\ UNCHANGED <<screen, toggles, cpi_var, font_var, spacing_var, spacing_n,
                   quality_var, speed_var, skip_perforation, left_margin_count,
                   config, text, timers, commits>>

\* an arrow of the skip-over-perforation spinbox (from 0 to 9)
SpinSkip(d) ==
  \E net \in {"ok", "fail"} :
    /\ skip_perforation + d \in 0..9
    /\ skip_perforation' = skip_perforation + d
    /\ Handled("skip", "", skip_perforation + d,
               apply_skip_over_perforation(skip_perforation + d, net))
    /\ UNCHANGED <<screen, toggles, cpi_var, font_var, spacing_var, spacing_n,
                   quality_var, speed_var, left_margin_count, zero_mode,
                   config, text, timers, commits>>

\* the left-margin spinbox is set to m (no command is bound to it)
SetLeftMargin(m) ==
  /\ m # left_margin_count
  /\ left_margin_count' = m
  /\ Handled("margin", "", m, <<>>)
  /\ commits' = [i \in 1..Len(commits) |->
                   IF MarginPending(i) THEN [commits[i] EXCEPT !.stable = FALSE]
                   ELSE commits[i]]
  /\ UNCHANGED <<screen, toggles, cpi_var, font_var, spacing_var, spacing_n,
                 quality_var, speed_var, skip_perforation, zero_mode,
                 config, text, timers>>

\* a click on a mode radio button (no command is bound to it)
SelectMode(m) ==
  /\ m # mode_var
  /\ mode_var' = m
  /\ Handled("mode", m, 0, <<>>)
  /\ UNCHANGED <<screen, toggles, settings, debug_mode, port_entry, text, timers, commits>>

\* a click on the Debug Mode checkbox (no command is bound to it)
ToggleDebug ==
  /\ debug_mode' = ~debug_mode
  /\ Handled("debug", "", 0, <<>>)
  /\ UNCHANGED <<screen, toggles, settings, mode_var, port_entry, text, timers, commits>>

\* an edit of the port entry
EditPort(p) ==
  /\ p # port_entry
  /\ port_entry' = p
  /\ Handled("port", "", 0, <<>>)
  /\ UNCHANGED <<screen, toggles, settings, mode_var, debug_mode, text, timers, commits>>

\* a click on a manual command button
ManualCommand(b) ==
  \E net \in {"ok", "fail"} :
    /\ Handled("manual", b, 0, send_manual_command(b, net))
    /\ UNCHANGED <<screen, toggles, settings, config, text, timers, commits>>

\* a click on Send Defaults
SendDefaults ==
  \E net \in NetOutcomes(DefaultsSends) :
    /\ Handled("defaults", "", 0,
               send_all_defaults(toggles, cpi_var, font_var, spacing_var, spacing_n,
                                 quality_var, speed_var, skip_perforation, net))
    /\ UNCHANGED <<screen, toggles, settings, config, text, timers, commits>>

\* a key other than Return is pressed in the text widget
KeyPress(k) ==
  \E net \in {"ok", "fail"} :
    /\ text' = TextClassBinding(text, k.keysym, k.char)
    /\ Handled("key", k.keysym, 0, handle_key(k.keysym, k.char, mode_var, net))
    /\ UNCHANGED <<screen, toggles, settings, config, timers, commits>>

\* Return is pressed in the text widget: handle_key returns at once,
\* handle_return runs, then the Text class binding inserts its newline
KeyPressReturn ==
  \E net \in {"ok", "fail"} :
    LET id == Len(commits) + 1
        r == handle_return(mode_var, CurrentLine(text), id, net)
        alone == \A i \in 1..Len(commits) : ~Pending(i)
    IN /\ timers' = AfterAll(timers, r.after)
       /\ text' = TextClassBinding(IF r.newline THEN InsertNewline(text) ELSE text,
                                   "Return", <<13>>)
       /\ commits' = [i \in 1..id |->
                        IF i = id
                          THEN [mode |-> mode_var, line |-> CurrentLine(text),
                                margin |-> left_margin_count, solo |-> alone,
                                stable |-> TRUE, tx |-> r.sent]
                        ELSE IF Pending(i) THEN [commits[i] EXCEPT !.solo = FALSE]
                        ELSE commits[i]]
       /\ Handled("return", "", id,
                  handle_key("Return", <<13>>, mode_var, net) \o r.sent)
       \* handle_return ends with self.update_line_length_display(), which
       \* runs before the class binding
       /\ Shows(update_line_length_display(
                  CurrentLine(IF r.newline THEN InsertNewline(text) ELSE text),
                  cpi_var, toggles["double_wide"], left_margin_count,
                  right_margin_var))
       /\ UNCHANGED <<right_margin_var, toggles, settings, config>>

\* a key is released in the text widget: update_line_length_display is the
\* <KeyRelease> binding
KeyRelease ==
  /\ Handled("keyrelease", "", 0, <<>>)
  /\ Shows(update_line_length_display(CurrentLine(text), cpi_var,
                                      toggles["double_wide"], left_margin_count,
                                      right_margin_var))
  /\ UNCHANGED <<right_margin_var, toggles, settings, config, text,
                 timers, commits>>

\* an edit of the right-margin entry (no command is bound to it)
EditRightMargin(r) ==
  /\ r # right_margin_var
  /\ right_margin_var' = r
  /\ Handled("right_margin", r, 0, <<>>)
  /\ UNCHANGED <<line_length_display, stderr, toggles, settings, config,
                 text, timers, commits>>

(* ------------------------------ event loop ---------------------------- *)
\* time passes
Tick ==
  \E near \in BOOLEAN :
    /\ timers' = Elapse(timers, near)
    /\ timers' # timers
    /\ UNCHANGED <<screen, toggles, settings, config, text, commits, last, out, ops, fails>>

Callback_margin_of_return(t, net) ==
  CASE t.cb = "send_live_command" -> <<send_live_command(t.arg, net[1])>>
    [] t.cb = "send_left_margin" ->
         send_left_margin(commits[t.id].margin,
                          [i \in 1..commits[t.id].margin |-> "ok"])
    [] t.cb = "send_all_defaults" ->
         send_all_defaults(toggles, cpi_var, font_var, spacing_var, spacing_n,
                           quality_var, speed_var, skip_perforation, net)

\* what the callback of timer t transmits
Callback(t, net) ==
  CASE t.cb = "send_live_command" -> <<send_live_command(t.arg, net[1])>>
    [] t.cb = "send_left_margin" -> send_left_margin(left_margin_count, net)
    [] t.cb = "send_all_defaults" ->
         send_all_defaults(toggles, cpi_var, font_var, spacing_var, spacing_n,
                           quality_var, speed_var, skip_perforation, net)

\* the connections the callback of timer t opens
Connections(t) ==
  CASE t.cb = "send_live_command" -> 1
    [] t.cb = "send_left_margin" -> left_margin_count
    [] t.cb = "send_all_defaults" -> DefaultsSends

FireTimer_resetting ==
  /\ timers # <<>>
  /\ Head(timers).delay = 0
  /\ \E net \in NetOutcomes(Connections(Head(timers))) :
       LET t == Head(timers)
           sent == Callback(t, net)
       IN /\ timers' = Tail(timers)
          /\ Errors(sent) <= fails
          /\ fails' = fails - Errors(sent)
          /\ out' = sent
          /\ last' = Event("timer", t.cb, t.id)
          /\ commits' = IF t.id > 0
                          THEN [commits EXCEPT ![t.id].tx = @ \o sent]
                          ELSE commits
          /\ IF t.cb = "send_all_defaults"
               THEN /\ toggles' = [f \in Features |-> FALSE]
                    /\ cpi_var' = DEFAULT_CPI
               ELSE UNCHANGED <<toggles, cpi_var>>
  /\ UNCHANGED <<screen, font_var, spacing_var, spacing_n, quality_var, speed_var,
                 skip_perforation, left_margin_count, zero_mode, config, text, ops>>

\* the event loop dispatches the first timer, which is due
FireTimer ==
  /\ timers # <<>>
  /\ Head(timers).delay = 0
  /\ \E net \in NetOutcomes(Connections(Head(timers))) :
       LET t == Head(timers)
           sent == Callback(t, net)
       IN /\ timers' = Tail(timers)
          /\ Errors(sent) <= fails
          /\ fails' = fails - Errors(sent)
          /\ out' = sent
          /\ last' = Event("timer", t.cb, t.id)
          /\ commits' = IF t.id > 0
                          THEN [commits EXCEPT ![t.id].tx = @ \o sent]
                          ELSE commits
  /\ UNCHANGED <<screen, toggles, settings, config, text, ops>>

Next ==
  \/ \E f \in Features : ToggleFeature(f)
  \/ \E c \in CpiChoices : SelectCpi(c)
  \/ \E c \in FontChoices : SelectFont(c)
  \/ \E c \in SpacingChoices : SelectSpacing(c)
  \/ \E n \in SpacingNInputs : EditSpacingN(n)
  \/ \E c \in QualityChoices : SelectQuality(c)
  \/ \E c \in SpeedChoices : SelectSpeed(c)
  \/ \E c \in ZeroChoices : SelectZero(c)
  \/ \E d \in {-1, 1} : SpinSkip(d)
  \/ \E m \in 0..MaxMargin : SetLeftMargin(m)
  \/ \E m \in ModeChoices : SelectMode(m)
  \/ ToggleDebug
  \/ \E p \in PortInputs : EditPort(p)
  \/ \E b \in ManualButtons : ManualCommand(b)
  \/ SendDefaults
  \/ \E k \in KeyInputs : KeyPress(k)
  \/ KeyPressReturn
  \/ KeyRelease
  \/ \E r \in RightMarginInputs : EditRightMargin(r)
  \/ Tick
  \/ FireTimer

Spec == Init /\ [][Next]_vars

\* the state once the startup callback has run and reached the printer: the
\* user's first event finds the program here when it comes later than
\* STARTUP_DELAY after the start
StartedWith(margin, mode) ==
  /\ WidgetsWith(margin, mode)
  /\ timers = <<>>
  /\ last = Event("timer", "send_all_defaults", 0)
  /\ out = send_all_defaults(toggles, cpi_var, font_var, spacing_var, spacing_n,
                             quality_var, speed_var, skip_perforation,
                             [i \in 1..DefaultsSends |-> "ok"])

Started == StartedWith(DEFAULT_LEFT_MARGIN, "Line-by-Line")

\* the checkboxes and the CPI buttons, with Send Defaults and Return
InitPanel == Started /\ ops = MaxPanelOps /\ fails = MaxFail

NextPanel ==
  \/ \E f \in Features : ToggleFeature(f)
  \/ \E c \in CpiChoices : SelectCpi(c)
  \/ \E p \in PortInputs : EditPort(p)
  \/ \E b \in ManualButtons : ManualCommand(b)
  \/ SendDefaults
  \/ KeyPressReturn
  \/ Tick
  \/ FireTimer

SpecPanel == InitPanel /\ [][NextPanel]_vars

\* the checkboxes and the CPI buttons alone
InitToggles == Started /\ ops = MaxToggleOps /\ fails = MaxFail

NextToggles ==
  \/ \E f \in Features : ToggleFeature(f)
  \/ \E c \in CpiChoices : SelectCpi(c)
  \/ \E p \in PortInputs : EditPort(p)

SpecToggles == InitToggles /\ [][NextToggles]_vars

\* the text widget alone: keys, Return, the mode and the left margin.  No
\* command is bound to the left-margin spinbox or to the mode buttons: the
\* user has set them before the first event followed here
InitEditor ==
  /\ \E margin \in 0..MaxMargin, mode \in ModeChoices : StartedWith(margin, mode)
  /\ ops = MaxEditorOps
  /\ fails = MaxFail

NextEditor ==
  \/ \E k \in KeyInputs : KeyPress(k)
  \/ KeyPressReturn
  \/ \E m \in 0..MaxMargin : SetLeftMargin(m)
  \/ \E m \in ModeChoices : SelectMode(m)
  \/ \E p \in PortInputs : EditPort(p)
  \/ Tick
  \/ FireTimer

SpecEditor == InitEditor /\ [][NextEditor]_vars

\* update_line_length_display as a function of what it reads: the variables
\* hold any value their set() accepts, the current line has any length, and
\* the label still shows what __init__ put there
OtherCpi == {"0 cpi", "Double Wide"}
MetricMargins == {0, 1, 5, 20}
MetricLines == {0, 1, 3, 6, 40, 80}
InitMetrics ==
  /\ \E cpi \in CpiChoices \cup OtherCpi, dw \in BOOLEAN, m \in MetricMargins,
        n \in MetricLines, r \in RightMarginInputs :
       /\ toggles = [f \in Features |-> f = "double_wide" /\ dw]
       /\ cpi_var = cpi
       /\ left_margin_count = m
       /\ text = << [i \in 1..n |-> 32] >>
       /\ right_margin_var = r
  /\ font_var = "Block Graphic Set"
  /\ spacing_var = "1/6"
  /\ spacing_n = 9
  /\ quality_var = "HSD/SSD"
  /\ speed_var = "Full"
  /\ skip_perforation = DEFAULT_SKIP_PERFORATION
  /\ zero_mode = "Slashed Zero"
  /\ mode_var = "Line-by-Line"
  /\ debug_mode = TRUE
  /\ port_entry = DEFAULT_PORT
  /\ commits = <<>>
  /\ line_length_display = [text |-> 0, bg |-> "white"]
  /\ stderr = ""
  /\ timers = <<>>
  /\ last = Event("init", "", 0)
  /\ out = <<>>
  /\ ops = MaxMetricOps
  /\ fails = MaxFail

NextMetrics == KeyRelease

SpecMetrics == InitMetrics /\ [][NextMetrics]_vars

\* every operation that sends, with the port entry as the user left it: no
\* command is bound to the port entry, the left-margin spinbox or the mode
\* buttons
InitSends ==
  /\ \E margin \in 0..MaxMargin, mode \in ModeChoices, port \in PortInputs :
       /\ WidgetsAt(margin, mode, port, DEFAULT_CPI, DEFAULT_SKIP_PERFORATION, FALSE)
       /\ out = send_all_defaults(toggles, cpi_var, font_var, spacing_var,
                                  spacing_n, quality_var, speed_var,
                                  skip_perforation,
                                  [i \in 1..DefaultsSends |-> "ok"])
  /\ timers = <<>>
  /\ last = Event("timer", "send_all_defaults", 0)
  /\ ops = MaxSendOps
  /\ fails = MaxFail

NextSends ==
  \/ \E f \in Features : ToggleFeature(f)
  \/ \E c \in CpiChoices : SelectCpi(c)
  \/ \E b \in ManualButtons : ManualCommand(b)
  \/ SendDefaults
  \/ \E k \in KeyInputs : KeyPress(k)
  \/ KeyPressReturn
  \/ Tick
  \/ FireTimer

SpecSends == InitSends /\ [][NextSends]_vars

\* the handlers that look a command up, as functions of what they read:
\* cpi_var holds any value its set() accepts, a manual command has any name
UnknownButtons == {"Bell"}
InitLookup ==
  /\ \E cpi \in CpiChoices \cup OtherCpi, skip_val \in 0..9 :
       WidgetsAt(DEFAULT_LEFT_MARGIN, "Line-by-Line", DEFAULT_PORT, cpi, skip_val,
                 TRUE)
  /\ timers = <<>>
  /\ last = Event("init", "", 0)
  /\ out = <<>>
  /\ ops = MaxLookupOps
  /\ fails = MaxFail

NextLookup ==
  \/ \E b \in ManualButtons \cup UnknownButtons : ManualCommand(b)
  \/ \E c \in CpiChoices \cup OtherCpi : SelectCpi(c)
  \/ ToggleFeature("double_wide")
  \/ \E d \in {-1, 1} : SpinSkip(d)
  \/ SendDefaults

SpecLookup == InitLookup /\ [][NextLookup]_vars

\* the Debug Mode checkbox among the operations that send: the checkbox is
\* clicked with callbacks pending, with either port entry, in either mode,
\* the left margin set to one tab
InitDebug ==
  /\ \E mode \in ModeChoices, port \in PortInputs :
       /\ WidgetsAt(1, mode, port, DEFAULT_CPI, DEFAULT_SKIP_PERFORATION, FALSE)
       /\ out = send_all_defaults(toggles, cpi_var, font_var, spacing_var,
                                  spacing_n, quality_var, speed_var,
                                  skip_perforation,
                                  [i \in 1..DefaultsSends |-> "ok"])
  /\ timers = <<>>
  /\ last = Event("timer", "send_all_defaults", 0)
  /\ ops = MaxDebugOps
  /\ fails = MaxFail

\* the keys typed in SpecDebug: one that sends one byte, one that sends two
DebugKeys == {k \in KeyInputs : k.keysym \in {"space", "eacute"}}

NextDebug ==
  \/ ToggleDebug
  \/ \E k \in DebugKeys : KeyPress(k)
  \/ KeyPressReturn
  \/ Tick
  \/ FireTimer

SpecDebug == InitDebug /\ [][NextDebug]_vars

\* Return after Return: the user has typed a line in the text widget (in
\* Line-by-Line mode typing sends nothing) and set the left margin to one
\* tab, then presses Return, types on and changes the left margin while
\* callbacks wait
TypedLines == {<<>>, <<233>>, <<32, 233>>}
CommitKeys == {k \in KeyInputs : k.keysym = "space"}

InitCommits ==
  /\ \E margin \in {1}, mode \in ModeChoices, line \in TypedLines :
       /\ toggles = [f \in Features |-> FALSE]
       /\ cpi_var = DEFAULT_CPI
       /\ font_var = "Block Graphic Set"
       /\ spacing_var = "1/6"
       /\ spacing_n = 9
       /\ quality_var = "HSD/SSD"
       /\ speed_var = "Full"
       /\ skip_perforation = DEFAULT_SKIP_PERFORATION
       /\ left_margin_count = margin
       /\ zero_mode = "Slashed Zero"
       /\ mode_var = mode
       /\ debug_mode = TRUE
       /\ port_entry = DEFAULT_PORT
       /\ text = <<line>>
       /\ commits = <<>>
       /\ right_margin_var = DEFAULT_RIGHT_MARGIN
       /\ line_length_display =
            LET r == update_line_length_display(line, cpi_var, FALSE, margin,
                                                right_margin_var)
            IN [text |-> r.text, bg |-> r.bg]
       /\ stderr = ""
  /\ timers = <<>>
  /\ last = Event("keyrelease", "", 0)
  /\ out = <<>>
  /\ ops = MaxCommitOps
  /\ fails = MaxFail

NextCommits ==
  \/ KeyPressReturn
  \/ \E k \in CommitKeys : KeyPress(k)
  \/ \E m \in 0..MaxMargin : SetLeftMargin(m)
  \/ Tick
  \/ FireTimer

SpecCommits == InitCommits /\ [][NextCommits]_vars

\* Return after Return on a running event loop: root.mainloop() lets time
\* pass and dispatches every timer that is due
NextLoop ==
  \/ KeyPressReturn
  \/ Tick
  \/ FireTimer

SpecLoop == InitCommits /\ [][NextLoop]_vars /\ WF_vars(Tick) /\ WF_vars(FireTimer)

(* ====================================================================== *)
(* Claims                                                                 *)
(* ====================================================================== *)
\* the byte strings of a sequence of transmissions
Bytes(sent) == [i \in 1..Len(sent) |-> sent[i].bytes]
Tags(sent) == [i \in 1..Len(sent) |-> sent[i].tag]
IsPrefix(a, b) == Len(a) <= Len(b) /\ a = SubSeq(b, 1, Len(a))

\* the documented byte strings, written out independently of the registry
CR == <<13>>
LF == <<10>>
HT == <<9>>
Tabs(n) == [k \in 1..n |-> HT]
DocCpi == ("10 cpi" :> <<30>>) @@ ("12 cpi" :> <<28>>) @@ ("15 cpi" :> <<27, 103>>)
          @@ ("17.1 cpi" :> <<29>>) @@ ("20 cpi" :> <<27, 35, 51>>)
DocOn == [italic |-> <<27, 33, 47>>, emphasized |-> <<27, 84>>,
          underline |-> <<27, 45, 1>>, unidirectional |-> <<27, 45, 2>>,
          enhanced |-> <<27, 72>>, double_height |-> <<27, 31, 49>>,
          proportional |-> <<27, 89>>, double_wide |-> <<31>>, shift |-> <<15>>]
\* double-wide has no off-command of its own: the selected CPI is sent again
DocOff(f, cpi) ==
  IF f = "double_wide" THEN DocCpi[cpi]
  ELSE [italic |-> <<27, 33, 42>>, emphasized |-> <<27, 73>>,
        underline |-> <<27, 45, 0>>, unidirectional |-> <<27, 45, 0>>,
        enhanced |-> <<27, 73>>, double_height |-> <<27, 31, 48>>,
        proportional |-> <<27, 90>>, shift |-> <<14>>][f]
DocFont == ("Block Graphic Set" :> <<27, 33, 49>>) @@ ("Publisher Set" :> <<27, 33, 90>>)
           @@ ("Line Graphics Set" :> <<27, 33, 50>>)
           @@ ("Standard Character Set" :> <<27, 33, 48>>)
DocSpacing(spacing, n) ==
  IF spacing = "1/6" THEN <<27, 54>>
  ELSE IF spacing = "1/8" THEN <<27, 56>>
  ELSE <<27, 37, 57, n>>
DocQuality == ("HSD/SSD" :> <<27, 35, 48>>) @@ ("NLQ Courier" :> <<27, 49>>)
              @@ ("NLQ Gothic" :> <<27, 51>>) @@ ("Utility" :> <<27, 48>>)
DocSpeed == ("Full" :> <<27, 62>>) @@ ("Half" :> <<27, 60>>)
DocSkip(n) == IF n = 0 THEN <<27, 37, 83, 48>> ELSE <<27, 71, n, n>>
\* the UTF-8 bytes of the characters the keys of KeyInputs put into a line
DocUtf8Char == (9 :> <<9>>) @@ (32 :> <<32>>) @@ (233 :> <<195, 169>>)
RECURSIVE DocUtf8(_)
DocUtf8(line) ==
  IF line = <<>> THEN <<>> ELSE DocUtf8Char[Head(line)] \o DocUtf8(Tail(line))
\* what a key of KeyInputs sends in Live mode
DocLiveKey == [Tab |-> <<HT>>, BackSpace |-> << <<8>> >>, Escape |-> <<>>,
               Shift_L |-> <<>>, Delete |-> << <<127>> >>,
               space |-> << <<32>> >>, eacute |-> << <<195, 169>> >>]

\* what a Return in Line-by-Line mode with left margin n sends for a line
CommitPlan(n, line) == <<CR, LF>> \o Tabs(n) \o <<DocUtf8(line)>>
\* what a Return in Live mode with left margin n sends
LivePlan(n) == <<CR, LF>> \o Tabs(n)

\* C1: in Line-by-Line mode, a Return with left margin N that no other
\* Return overlaps transmits, in this order, Carriage Return, Line Feed, N
\* separate Horizontal Tabs and then the line's UTF-8 bytes in one
\* transmission; what it has transmitted so far is always a prefix of that
\* sequence, and all of it once no step is pending.
C1_CommitSequence ==
  \A i \in 1..Len(commits) :
    LET c == commits[i]
    IN (c.mode = "Line-by-Line" /\ c.solo /\ c.stable) =>
         /\ IsPrefix(Bytes(c.tx), CommitPlan(c.margin, c.line))
         /\ ~Pending(i) => Bytes(c.tx) = CommitPlan(c.margin, c.line)

C1_Witness ==
  \E i \in 1..Len(commits) :
    /\ commits[i].mode = "Line-by-Line" /\ commits[i].solo /\ commits[i].stable
    /\ commits[i].margin = 2 /\ commits[i].line = <<233>>
    /\ ~Pending(i)
    /\ Bytes(commits[i].tx) = <<CR, LF, HT, HT, <<195, 169>> >>

\* the callbacks a Return schedules, by mode
CallbackPlan(mode) ==
  IF mode = "Line-by-Line"
    THEN <<"send_live_command", "send_left_margin", "send_live_command">>
    ELSE <<"send_live_command", "send_left_margin">>
\* the callbacks of commit i that are still waiting, in dispatch order
Waiting(i) ==
  LET mine == SelectSeq(timers, LAMBDA t : t.id = i)
  IN [k \in 1..Len(mine) |-> mine[k].cb]
Failed(c) == \E k \in 1..Len(c.tx) : c.tx[k].res # "sent"

\* C2: a failed transmission in a commit cancels nothing: the callbacks not
\* yet run are all still scheduled, in order, and every callback that has run
\* made all its transmissions (the Line Feed, every tab of the burst, the
\* text), whatever the outcome of the earlier ones.
C2_FailureCancelsNothing ==
  \A i \in 1..Len(commits) :
    LET c == commits[i]
        plan == CallbackPlan(c.mode)
        run == Len(plan) - Len(Waiting(i))
    IN (Failed(c) /\ c.stable) =>
         /\ run >= 0
         /\ Waiting(i) = SubSeq(plan, run + 1, Len(plan))
         /\ Len(c.tx) = 1 + (IF run >= 1 THEN 1 ELSE 0)
                          + (IF run >= 2 THEN c.margin ELSE 0)
                          + (IF run >= 3 THEN 1 ELSE 0)

C2_Witness ==
  \E i \in 1..Len(commits) :
    /\ commits[i].mode = "Line-by-Line" /\ commits[i].margin = 2
    /\ ~Pending(i)
    /\ Len(commits[i].tx) = 5
    /\ commits[i].tx[2].bytes = LF /\ commits[i].tx[2].res = "error"
    /\ commits[i].tx[5].res = "sent"

\* C3: every change of one of the nine toggles makes exactly one
\* transmission: the feature's on-command when the new value is enabled, its
\* off-command when it is disabled.
C3_OneCommandPerToggle ==
  last.op = "toggle" =>
    /\ last.f \in Features
    /\ Len(out) = 1
    /\ out[1].bytes = IF toggles[last.f] THEN DocOn[last.f]
                      ELSE DocOff(last.f, cpi_var)

C3_Witness ==
  /\ last.op = "toggle" /\ last.f = "proportional" /\ ~toggles["proportional"]
  /\ Bytes(out) = << <<27, 90>> >>

C5_DoubleWide ==
  (last.op = "toggle" /\ last.f = "double_wide") =>
    IF toggles["double_wide"]
      THEN Bytes(out) = << <<31>> >>
      ELSE /\ Bytes(out) = <<DocCpi[cpi_var]>>
           /\ Tags(out) = <<"[CPI]">>
           /\ out[1].bytes # <<27, 33, 48>>

C5_Witness ==
  /\ last.op = "toggle" /\ last.f = "double_wide" /\ ~toggles["double_wide"]
  /\ cpi_var = "12 cpi"
  /\ Bytes(out) = << <<28>> >>

\* the latest step ran send_all_defaults (the button or the startup callback)
SentDefaults ==
  last.op = "defaults" \/ (last.op = "timer" /\ last.f = "send_all_defaults")

\* C6 as stated: restore-defaults transmits the buffer and then font,
\* spacing, quality, speed, double-height, proportional, and nothing else.
C6_AsStated ==
  SentDefaults =>
    Tags(out) = <<"[Restore Defaults]", "[Character Set]", "[Spacing]", "[Quality]",
                  "[Speed]", "[Double Height]", "[Proportional]">>

\* C6, amended: restore-defaults transmits, in this order and nothing else,
\* the buffer reset + CPI + skip-perforation (no buffer is built when the port
\* is not numeric), then each on its own: font, CPI, spacing, quality, speed,
\* double-height, proportional, skip-perforation.
C6_DefaultsOrder ==
  SentDefaults =>
    /\ Tags(out) = <<"[Restore Defaults]", "[Character Set]", "[CPI]", "[Spacing]",
                     "[Quality]", "[Speed]", "[Double Height]", "[Proportional]",
                     "[Skip Over Perforation]">>
    /\ Bytes(out) =
         << IF out[1].res = "badport" THEN <<>>
            ELSE <<24>> \o DocCpi[cpi_var] \o DocSkip(skip_perforation),
            DocFont[font_var],
            DocCpi[cpi_var],
            DocSpacing(spacing_var, spacing_n),
            DocQuality[quality_var],
            DocSpeed[speed_var],
            IF toggles["double_height"] THEN DocOn["double_height"]
            ELSE DocOff("double_height", cpi_var),
            IF toggles["proportional"] THEN DocOn["proportional"]
            ELSE DocOff("proportional", cpi_var),
            DocSkip(skip_perforation) >>

C6_Witness ==
  /\ SentDefaults
  /\ cpi_var = "15 cpi"
  /\ out[1].res = "sent"
  /\ out[1].bytes = <<24, 27, 103, 27, 37, 83, 48>>
  /\ Len(out) = 9

\* C7: the stored toggle values and settings change only in the step of a
\* user's toggle or selection: restore-defaults, Return, keys, manual
\* commands and the timer callbacks leave them as they are.
C7_OnlyUserSelectionsChange ==
  [][(/\ ops' = ops - 1
      /\ last'.op \in {"toggle", "cpi", "font", "spacing", "spacing_n", "quality",
                       "speed", "zero", "skip", "margin"})
     \/ (toggles' = toggles /\ settings' = settings)]_vars

C7_Witness ==
  /\ SentDefaults
  /\ toggles["double_height"]
  /\ Len(out) = 9

\* C8: in Line-by-Line mode a key other than Return transmits nothing.
C8_NoSendPerKey ==
  (last.op = "key" /\ mode_var = "Line-by-Line") => out = <<>>

C8_Witness ==
  /\ last.op = "key" /\ last.f = "eacute" /\ mode_var = "Line-by-Line"
  /\ CurrentLine(text) = <<233>>
  /\ out = <<>>

\* C9: in Live mode a key transmits, within its own event, exactly its
\* command: Tab the Horizontal Tab, BackSpace the Backspace, a character from
\* code point 32 (Delete's 127 included) its UTF-8 bytes, any other key
\* nothing; a Return transmits the commit's Carriage Return alone, not a
\* character.
C9_LiveKey ==
  /\ (last.op = "key" /\ mode_var = "Live") => Bytes(out) = DocLiveKey[last.f]
  /\ (last.op = "return") => Bytes(out) = <<CR>>

C9_Witness ==
  /\ last.op = "key" /\ last.f = "eacute" /\ mode_var = "Live"
  /\ Len(out) = 1
  /\ out[1].bytes = <<195, 169>> /\ out[1].res = "sent"

\* C10: a Return in Live mode transmits Carriage Return, Line Feed and the
\* left-margin tabs, in this order, and never the line: no callback of it
\* carries the text.
C10_LiveReturn ==
  \A i \in 1..Len(commits) :
    LET c == commits[i]
    IN (c.mode = "Live" /\ c.stable) =>
         /\ IsPrefix(Bytes(c.tx), LivePlan(c.margin))
         /\ ~Pending(i) => Bytes(c.tx) = LivePlan(c.margin)
         /\ IsPrefix(Waiting(i), <<"send_live_command", "send_left_margin">>)
            \/ Waiting(i) = <<"send_left_margin">>

C10_Witness ==
  \E i \in 1..Len(commits) :
    /\ commits[i].mode = "Live" /\ commits[i].margin = 2
    /\ commits[i].line = <<233>>
    /\ ~Pending(i)
    /\ Bytes(commits[i].tx) = <<CR, LF, HT, HT>>

\* the documented line length, to the nearest hundredth of an inch, for a CPI
\* given in tenths: (8 * leftMarginTabs / numericCpi) + (charCount /
\* effectiveCpi), effectiveCpi being numericCpi / 2 under double-wide
DocCpiTenths == ("10 cpi" :> 100) @@ ("12 cpi" :> 120) @@ ("15 cpi" :> 150)
                @@ ("17.1 cpi" :> 171) @@ ("20 cpi" :> 200)
DocLength(charCount, leftMarginTabs, cpiTenths, doubleWide) ==
  LET marginTerm == 80 * leftMarginTabs
      charTerm == IF doubleWide THEN 20 * charCount ELSE 10 * charCount
  IN (200 * (marginTerm + charTerm) + cpiTenths) \div (2 * cpiTenths)
CharCount == Len(CurrentLine(text))
Refreshed == last.op = "keyrelease"

\* C11: for every character count, left margin, CPI of the five choices and
\* double-wide flag, the line length shown is (8 * margin / cpi) + (chars /
\* effective cpi), double-wide halving the cpi of the character term only:
\* 40 characters at 10 cpi show 4.00, 80 at 10 cpi double-wide show 16.00.
C11_LineLength ==
  (Refreshed /\ cpi_var \in CpiChoices) =>
    /\ line_length_display.text =
         DocLength(CharCount, left_margin_count, DocCpiTenths[cpi_var],
                   toggles["double_wide"])
    /\ (CharCount = 40 /\ left_margin_count = 0 /\ cpi_var = "10 cpi"
        /\ ~toggles["double_wide"]) => line_length_display.text = 400
    /\ (CharCount = 80 /\ left_margin_count = 0 /\ cpi_var = "10 cpi"
        /\ toggles["double_wide"]) => line_length_display.text = 1600

C11_Witness ==
  /\ Refreshed /\ cpi_var = "17.1 cpi" /\ toggles["double_wide"]
  /\ CharCount = 40 /\ left_margin_count = 5
  /\ line_length_display.text = 702

\* right margin minus line length in the documented formula, times
\* 100 * cpiTenths, for a right margin given in hundredths
DocRightMargin == ("7.5" :> 750) @@ ("1.0" :> 100) @@ ("0.5" :> 50) @@ ("0.25" :> 25)
DocGap ==
  DocRightMargin[right_margin_var] * DocCpiTenths[cpi_var]
  - 100 * (80 * left_margin_count
           + (IF toggles["double_wide"] THEN 20 ELSE 10) * CharCount)
DocHalfInch == 50 * DocCpiTenths[cpi_var]

\* C12: the colour shown is exactly one of three, decided by gap = right
\* margin - line length: green when gap >= 0.5, yellow when 0 <= gap < 0.5,
\* red when gap < 0.
C12_Feasibility ==
  (Refreshed /\ cpi_var \in CpiChoices /\ right_margin_var \in DOMAIN DocRightMargin) =>
    /\ line_length_display.bg \in {"green", "yellow", "red"}
    /\ line_length_display.bg = "green" <=> DocGap >= DocHalfInch
    /\ line_length_display.bg = "yellow" <=> (0 <= DocGap /\ DocGap < DocHalfInch)
    /\ line_length_display.bg = "red" <=> DocGap < 0

C12_Witness ==
  /\ Refreshed /\ cpi_var = "12 cpi" /\ ~toggles["double_wide"]
  /\ CharCount = 6 /\ left_margin_count = 0 /\ right_margin_var = "0.5"
  /\ line_length_display = [text |-> 50, bg |-> "yellow"]

C14_TotalNonNegative ==
  (/\ Refreshed
   /\ cpi_var \in {"0 cpi", "Double Wide", "10 cpi", "20 cpi"}
   /\ left_margin_count \in {0, 5, 20}) =>
    /\ stderr = ""
    /\ line_length_display.bg # "white"
    /\ line_length_display.text >= 0

C14_Witness ==
  /\ Refreshed /\ cpi_var = "0 cpi" /\ toggles["double_wide"]
  /\ CharCount = 80 /\ left_margin_count = 20
  /\ stderr = ""
  /\ line_length_display = [text |-> 0, bg |-> "green"]

\* C15: while the port entry is not numeric, every send operation (toggle,
\* CPI, manual command, key, commit step, Send Defaults) reports "Invalid port
\* number." and sends nothing; no connection is opened, so none fails, and
\* restore-defaults builds no buffer.
C15_InvalidPort ==
  ~PortIsInt(port_entry) =>
    /\ \A i \in 1..Len(out) :
         out[i].res = "badport" /\ out[i].dialog = "Invalid port number."
    /\ \A k \in 1..Len(commits) : \A i \in 1..Len(commits[k].tx) :
         commits[k].tx[i].res = "badport"
    /\ fails = MaxFail
    /\ SentDefaults => out[1].bytes = <<>>

C15_Witness ==
  /\ ~PortIsInt(port_entry)
  /\ last = Event("timer", "send_left_margin", 1)
  /\ Len(out) = 2
  /\ out[2].res = "badport" /\ out[2].dialog = "Invalid port number."

\* C16: a command name the registry does not hold resolves to the empty
\* sequence: the manual command, the CPI selection or the double-wide toggle
\* that looked it up transmits nothing and reports nothing, and in
\* restore-defaults an unknown CPI adds no byte to the buffer, which is then
\* the reset followed by the skip-perforation command.
C16_UnknownCommand ==
  /\ stderr = ""
  /\ (last.op = "manual" /\ last.f \in UnknownButtons) => out = <<>>
  /\ (last.op = "cpi" /\ cpi_var \in OtherCpi) => out = <<>>
  /\ (last.op = "toggle" /\ ~toggles["double_wide"] /\ cpi_var \in OtherCpi) =>
       out = <<>>
  /\ (SentDefaults /\ cpi_var \in OtherCpi) =>
       /\ out[1].bytes = <<24>> \o DocSkip(skip_perforation)
       /\ \A i \in 1..Len(out) : out[i].tag # "[CPI]"

C16_Witness ==
  /\ SentDefaults /\ cpi_var = "0 cpi" /\ skip_perforation = 5
  /\ out[1].bytes = <<24, 27, 71, 5, 5>>
  /\ Len(out) = 8

\* C17: the skip-over-perforation command is 27 37 83 48 for 0 and, for n in
\* 1..9, the four bytes 27 71 n n, the parameter appearing twice, whatever
\* the other settings are.
C17_SkipEncoder ==
  /\ last.op = "skip" =>
       /\ Len(out) = 1
       /\ out[1].bytes = DocSkip(skip_perforation)
       /\ skip_perforation = 0 => out[1].bytes = <<27, 37, 83, 48>>
       /\ skip_perforation \in 1..9 =>
            /\ Len(out[1].bytes) = 4
            /\ SubSeq(out[1].bytes, 1, 2) = <<27, 71>>
            /\ {i \in 1..4 : out[1].bytes[i] = skip_perforation} = {3, 4}
  /\ SentDefaults => out[Len(out)].bytes = DocSkip(skip_perforation)

C17_Witness ==
  /\ last.op = "skip" /\ skip_perforation = 5 /\ cpi_var = "15 cpi"
  /\ Bytes(out) = << <<27, 71, 5, 5>> >>

\* the documented byte sequence of every fixed command name
DocRegistry ==
  ("Backspace" :> <<8>>)
  @@ ("Carriage Return" :> <<13>>)
  @@ ("Select 10 cpi" :> <<30>>)
  @@ ("Select 12 cpi" :> <<28>>)
  @@ ("Select 15 cpi" :> <<27, 103>>)
  @@ ("Select 17.1 cpi" :> <<29>>)
  @@ ("Select 20 cpi" :> <<27, 35, 51>>)
  @@ ("Standard Character Set" :> <<27, 33, 48>>)
  @@ ("Block Graphic Set" :> <<27, 33, 49>>)
  @@ ("Publisher Set" :> <<27, 33, 90>>)
  @@ ("Line Graphics Set" :> <<27, 33, 50>>)
  @@ ("Select Utility" :> <<27, 48>>)
  @@ ("Slashed Zero" :> <<27, 33, 64>>)
  @@ ("Unslashed Zero" :> <<27, 33, 65>>)
  @@ ("Double Height On" :> <<27, 31, 49>>)
  @@ ("Double Height Off" :> <<27, 31, 48>>)
  @@ ("Double Width On" :> <<31>>)
  @@ ("Double Width Off" :> <<27, 33, 48>>)
  @@ ("Emphasized Printing On" :> <<27, 84>>)
  @@ ("Emphasized Printing Off" :> <<27, 73>>)
  @@ ("Enhanced Printing On" :> <<27, 72>>)
  @@ ("Enhanced Printing Off" :> <<27, 73>>)
  @@ ("Underline Printing On" :> <<27, 45, 1>>)
  @@ ("Underline Printing Off" :> <<27, 45, 0>>)
  @@ ("Unidirectional Printing On" :> <<27, 45, 2>>)
  @@ ("Unidirectional Printing Off" :> <<27, 45, 0>>)
  @@ ("Form Feed" :> <<12>>)
  @@ ("Horizontal Tab" :> <<9>>)
  @@ ("Vertical Tab" :> <<11>>)
  @@ ("Line Feed" :> <<10>>)
  @@ ("Line Feed w/o CR" :> <<27, 18>>)
  @@ ("Reverse Line Feed" :> <<27, 10>>)
  @@ ("Set Spacing to 1/6\"" :> <<27, 54>>)
  @@ ("Set Spacing to 1/8\"" :> <<27, 56>>)
  @@ ("Print Quality Select HSD/SSD" :> <<27, 35, 48>>)
  @@ ("Select NLQ Courier" :> <<27, 49>>)
  @@ ("Select NLQ Gothic" :> <<27, 51>>)
  @@ ("Print Speed Set to Full" :> <<27, 62>>)
  @@ ("Print Speed Set to Half" :> <<27, 60>>)
  @@ ("Proportional Printing On" :> <<27, 89>>)
  @@ ("Proportional Printing Off" :> <<27, 90>>)
  @@ ("Reset (Clear Print Buffer)" :> <<24>>)
  @@ ("Shift In" :> <<15>>)
  @@ ("Shift Out" :> <<14>>)

\* C18: a manual command button and the Shift In/Out checkbox transmit
\* within their own event and schedule nothing: the button sends exactly its
\* registry bytes, the checkbox Shift In (15) when set and Shift Out (14) when
\* cleared, and the timer steps that were pending are still pending, none of
\* them having run.
C18_ManualSynchronous ==
  [][/\ (ops' = ops - 1 /\ last'.op = "manual") =>
          /\ Bytes(out') = <<DocRegistry[last'.f]>>
          /\ timers' = timers /\ commits' = commits
     /\ (ops' = ops - 1 /\ last'.op = "toggle" /\ last'.f = "shift") =>
          /\ Bytes(out') = <<IF toggles'["shift"] THEN <<15>> ELSE <<14>> >>
          /\ timers' = timers /\ commits' = commits]_vars

C18_Witness ==
  /\ last.op = "manual" /\ last.f = "Form Feed"
  /\ Bytes(out) = << <<12>> >>
  /\ Len(timers) = 3
  /\ Len(commits) = 1 /\ Bytes(commits[1].tx) = <<CR>>

\* what the label shows when it is computed from the current line, CPI,
\* double-wide flag, left margin and right margin
DocShown ==
  LET c == DocCpiTenths[cpi_var]
      right == IF right_margin_var \in DOMAIN DocRightMargin
                 THEN DocRightMargin[right_margin_var] ELSE 750
      gap == right * c - 100 * (80 * left_margin_count
                                + (IF toggles["double_wide"] THEN 20 ELSE 10)
                                  * CharCount)
  IN [text |-> DocLength(CharCount, left_margin_count, c, toggles["double_wide"]),
      bg |-> IF gap >= 50 * c THEN "green"
             ELSE IF gap >= 0 THEN "yellow" ELSE "red"]

\* C19 as stated: once a change of the line, the CPI, the left margin or the
\* double-wide flag has been handled, the label shows the length and colour
\* computed from the current values.
C19_AsStated ==
  (\/ last.op \in {"keyrelease", "cpi", "margin"}
   \/ (last.op = "toggle" /\ last.f = "double_wide")) =>
    line_length_display = DocShown

\* The registry as a table: every fixed name maps to its documented bytes,
\* and the spacing entry builds 27 37 57 n for every byte n.
RegistryIsDocumented ==
  /\ DOMAIN OKIDATA_COMMANDS = DOMAIN DocRegistry
  /\ \A name \in DOMAIN DocRegistry : Get(name, <<>>) = DocRegistry[name]
  /\ Get("Carriage Return", <<>>) = <<13>>
  /\ Get("Line Feed", <<>>) = <<10>>
  /\ Get("Horizontal Tab", <<>>) = <<9>>
  /\ Get("Select 10 cpi", <<>>) = <<30>>
  /\ Get("Double Width On", <<>>) = <<31>>
  /\ Get("Underline Printing On", <<>>) = <<27, 45, 1>>
  /\ \A n \in 0..255 : SetSpacingN144(n) = <<27, 37, 57, n>>

\* C20: the registry is never written and holds, for each fixed name, its
\* documented bytes: Carriage Return 13, Line Feed 10, Horizontal Tab 9,
\* Select 10 cpi 30, Double Width On 31, Underline Printing On 27 45 1; Set
\* Spacing to n/144 is 27 37 57 n; and what a manual button transmits, after
\* any operations, is its documented sequence.
C20_Registry ==
  /\ RegistryIsDocumented
  /\ last.op = "manual" => Bytes(out) = <<DocRegistry[last.f]>>
  /\ (last.op \in {"spacing", "spacing_n"} /\ spacing_var = "n/144" /\ out # <<>>) =>
       Bytes(out) = << <<27, 37, 57, spacing_n>> >>

C20_Witness ==
  /\ last.op = "manual" /\ last.f = "Carriage Return"
  /\ timers = <<>>
  /\ Bytes(out) = << <<13>> >>

\* the byte buffers each handler hands to the transport from the present
\* state, in order, for every event and every outcome of its connections,
\* with the callbacks a Return would schedule
Handing ==
  LET one == {"ok", "fail"}
  IN [toggle |-> [f \in Features |-> [net \in one |->
                   Bytes(CheckbuttonCommand(f, ~toggles[f], cpi_var, net))]],
      cpi |-> [c \in CpiChoices |-> [net \in one |-> Bytes(apply_cpi(c, net))]],
      font |-> [c \in FontChoices |-> [net \in one |-> Bytes(apply_font(c, net))]],
      spacing |-> [c \in SpacingChoices |-> [net \in one |->
                    Bytes(apply_spacing(c, spacing_n, net))]],
      quality |-> [c \in QualityChoices |-> [net \in one |->
                    Bytes(apply_quality(c, net))]],
      speed |-> [c \in SpeedChoices |-> [net \in one |-> Bytes(apply_speed(c, net))]],
      zero |-> [c \in ZeroChoices |-> [net \in one |-> Bytes(apply_zero(c, net))]],
      skip |-> [n \in 0..9 |-> [net \in one |->
                 Bytes(apply_skip_over_perforation(n, net))]],
      manual |-> [b \in ManualButtons |-> [net \in one |->
                   Bytes(send_manual_command(b, net))]],
      defaults |-> [net \in NetOutcomes(DefaultsSends) |->
                     Bytes(send_all_defaults(toggles, cpi_var, font_var, spacing_var,
                                             spacing_n, quality_var, speed_var,
                                             skip_perforation, net))],
      key |-> [k \in KeyInputs |-> [net \in one |->
                Bytes(handle_key(k.keysym, k.char, mode_var, net))]],
      return |-> [net \in one |->
                   LET r == handle_return(mode_var, CurrentLine(text),
                                          Len(commits) + 1, net)
                   IN [sent |-> Bytes(r.sent), after |-> r.after]],
      timer |-> [i \in 1..Len(timers) |->
                  [net \in NetOutcomes(Connections(timers[i])) |->
                    Bytes(Callback(timers[i], net))]]]

\* C21: the debug setting never influences what is transmitted: a click on
\* the Debug Mode checkbox changes nothing a handler reads but debug_mode,
\* and from the two states, which differ in debug mode alone, every handler
\* hands the same byte buffers to the transport in the same order, for every
\* event and every transport outcome.
C21_DebugNonInterference ==
  [][debug_mode' # debug_mode =>
       /\ Handing' = Handing
       /\ UNCHANGED <<toggles, settings, mode_var, port_entry, text, timers>>]_vars

C21_Witness ==
  /\ ~debug_mode
  /\ last.op = "timer" /\ last.f = "send_live_command"
  /\ Bytes(out) = <<LF>>
  /\ out[1].res = "sent" /\ out[1].log = <<>>
  /\ \E i \in 1..Len(timers) : timers[i].cb = "send_left_margin"

\* the callbacks of commit i that have run
Ran(i) == Len(CallbackPlan(commits[i].mode)) - Len(Waiting(i))
\* commit i has made the transmissions of every callback of its that has run
Performed(i) ==
  LET c == commits[i]
  IN /\ Ran(i) >= 0
     /\ Waiting(i) = SubSeq(CallbackPlan(c.mode), Ran(i) + 1, Len(CallbackPlan(c.mode)))
     /\ Len(c.tx) >= 1 /\ c.tx[1].bytes = CR
     /\ Ran(i) >= 1 => (Len(c.tx) >= 2 /\ c.tx[2].bytes = LF)
     /\ (Ran(i) >= 2 /\ c.stable) =>
          /\ Len(c.tx) >= 2 + c.margin
          /\ \A k \in 3..(2 + c.margin) : c.tx[k].bytes = HT
     /\ Ran(i) >= 3 => c.tx[Len(c.tx)].bytes = DocUtf8(c.line)
     /\ c.stable =>
          Len(c.tx) = 1 + (IF Ran(i) >= 1 THEN 1 ELSE 0)
                        + (IF Ran(i) >= 2 THEN c.margin ELSE 0)
                        + (IF Ran(i) >= 3 THEN 1 ELSE 0)

\* C22: a Return pressed while an earlier commit has pending steps is not
\* blocked, dropped or delayed and cancels nothing: it transmits its Carriage
\* Return in the handler and schedules all its own steps, the steps that
\* were pending stay pending, unchanged and in the same order, and every
\* overlapped commit makes the transmissions of all its steps.
C22_Overlap ==
  /\ [](\A i \in 1..Len(commits) : ~commits[i].solo => Performed(i))
  /\ [][(/\ ops' = ops - 1 /\ last'.op = "return"
          /\ \E i \in 1..Len(commits) : Pending(i))
         => /\ Len(commits') = Len(commits) + 1
            /\ Bytes(out') = <<CR>>
            /\ SelectSeq(timers', LAMBDA t : t.id <= Len(commits)) = timers
            /\ [k \in 1..Len(timers') - Len(timers) |->
                  SelectSeq(timers', LAMBDA t : t.id = Len(commits'))[k].cb]
                 = CallbackPlan(mode_var)]_vars

\* the second Return's Carriage Return is transmitted while the Line Feed,
\* the tab burst and the line text of the first are all still to come
C22_Witness ==
  /\ Len(commits) = 2
  /\ last.op = "return" /\ last.n = 2
  /\ out[1].bytes = CR /\ out[1].res = "sent"
  /\ commits[1].mode = "Line-by-Line" /\ commits[1].line = <<32, 233>>
  /\ Bytes(commits[1].tx) = <<CR>>
  /\ Waiting(1) = <<"send_live_command", "send_left_margin", "send_live_command">>
  /\ Waiting(2) = <<"send_live_command", "send_left_margin", "send_live_command">>

\* the last step commit i has made, by the callbacks of its that have run;
\* the commit is Idle again once none is waiting
CommitState(i) == <<"SentCR", "SentLF", "SentMargin", "SentText">>[Ran(i) + 1]
\* the last step of a commit: the text step exists in Line-by-Line mode only
LastState(mode) == IF mode = "Line-by-Line" THEN "SentText" ELSE "SentMargin"

\* C23: every commit terminates: on a running event loop a commit goes from
\* SentCR to SentLF, SentMargin and (in Line-by-Line mode) SentText, one step
\* at a time and in this order, and is Idle again once the last step has
\* fired; every scheduled step fires, exactly once, whatever the outcomes of
\* the transmissions before it.
C23_CommitTerminates ==
  /\ [](\A i \in 1..Len(commits) :
         /\ Ran(i) \in 0..Len(CallbackPlan(commits[i].mode))
         /\ Waiting(i) = SubSeq(CallbackPlan(commits[i].mode), Ran(i) + 1,
                                Len(CallbackPlan(commits[i].mode)))
         /\ Len(commits[i].tx) >= 1 + Ran(i) - (IF Ran(i) >= 2 THEN 1 ELSE 0)
         /\ Pending(i) <=> CommitState(i) # LastState(commits[i].mode))
  /\ [][\A i \in 1..Len(commits) :
          \/ Ran(i)' = Ran(i)
          \/ /\ Ran(i)' = Ran(i) + 1
             /\ last'.op = "timer" /\ last'.n = i
             /\ \A j \in 1..Len(commits) : j # i => Ran(j)' = Ran(j)]_vars
  /\ \A i \in 1..MaxCommitOps :
       [](Len(commits) >= i =>
            <>(/\ Len(commits) >= i
               /\ ~Pending(i)
               /\ CommitState(i) = LastState(commits[i].mode)))

\* a Line-by-Line commit is Idle again after all its steps, one of which failed
C23_Witness ==
  /\ Len(commits) >= 1
  /\ commits[1].mode = "Line-by-Line" /\ commits[1].line = <<32, 233>>
  /\ ~Pending(1) /\ Ran(1) = 3
  /\ Bytes(commits[1].tx) = <<CR, LF, HT, <<32, 195, 169>> >>
  /\ commits[1].tx[2].res = "error"
  /\ commits[1].tx[4].res = "sent"

\* the callbacks of commit i that are waiting, in dispatch order
Mine(i) == SelectSeq(timers, LAMBDA t : t.id = i)

\* C24: the text a Line-by-Line commit transmits in its last step is the
\* content of the current line when Return was handled, before the newline
\* is inserted: the waiting text step holds these bytes whatever is typed
\* afterwards, and they are what the step transmits.
C24_CapturedText ==
  /\ [](\A i \in 1..Len(commits) :
         commits[i].mode = "Line-by-Line" =>
           /\ Pending(i) => Mine(i)[Len(Mine(i))].arg = DocUtf8(commits[i].line)
           /\ ~Pending(i) =>
                commits[i].tx[Len(commits[i].tx)].bytes = DocUtf8(commits[i].line))
  /\ [][/\ \A i \in 1..Len(commits) : commits'[i].line = commits[i].line
        /\ (ops' = ops - 1 /\ last'.op = "return" /\ mode_var = "Line-by-Line") =>
             /\ commits'[Len(commits')].line = text[Len(text)]
             /\ Len(text') > Len(text)
             /\ text'[Len(text)] = text[Len(text)]
        /\ (last'.op = "timer" /\ last'.f = "send_live_command" /\ timers' # timers
            /\ Len(timers') < Len(timers)) =>
             Bytes(out') = <<Head(timers).arg>>]_vars

\* the text step of the first commit transmits the line as it was at the
\* Return, after the user has typed on the next line
C24_Witness ==
  /\ Len(commits) = 1
  /\ commits[1].mode = "Line-by-Line" /\ commits[1].line = <<32, 233>>
  /\ last.op = "timer" /\ last.n = 1 /\ ~Pending(1)
  /\ Bytes(out) = << <<32, 195, 169>> >>
  /\ text[Len(text)] = <<32>>
  /\ Len(text) > 1

\* C25: the tab burst of a commit has as many Horizontal Tabs as the left
\* margin holds when the tab step fires, not as it held when Return was
\* pressed: after a change of the left margin in between, the burst uses
\* the new value.
C25_MarginAtFireTime ==
  (last.op = "timer" /\ last.f = "send_left_margin") =>
    /\ Bytes(out) = Tabs(left_margin_count)
    /\ \A k \in 1..Len(out) : out[k].tag = "[Live Keystroke]"
    /\ (~commits[last.n].stable /\ commits[last.n].margin # left_margin_count) =>
         Bytes(out) # Tabs(commits[last.n].margin)

\* Return with the left margin at 1, the margin set to 2, then the tab step
C25_Witness ==
  /\ last.op = "timer" /\ last.f = "send_left_margin" /\ last.n = 1
  /\ commits[1].margin = 1 /\ ~commits[1].stable
  /\ left_margin_count = 2
  /\ Bytes(out) = <<HT, HT>>

\* the log holds, for transmission t, the error line with its tag
LoggedFailure(t) ==
  \E j \in 1..Len(t.log) : t.log[j].tag = t.tag /\ t.log[j].kind = "error"

\* C26 as stated: every transport failure is recorded in the log with the
\* tag of the transmission that failed and the error detail, for every
\* sender: toggles and settings, manual commands and keystrokes, the steps of
\* a commit, and the concatenated restore-defaults buffer.
C26_AsStated ==
  /\ \A k \in 1..Len(out) : out[k].res = "error" => LoggedFailure(out[k])
  /\ \A i \in 1..Len(commits) : \A k \in 1..Len(commits[i].tx) :
       commits[i].tx[k].res = "error" => LoggedFailure(commits[i].tx[k])

\* the other of the two features
Other(f) == IF f = "emphasized" THEN "enhanced" ELSE "emphasized"
DocTag == [emphasized |-> "[Emphasized]", enhanced |-> "[Enhanced Printing]"]

\* C27: emphasized and enhanced are independent toggles: their off-commands
\* are the same bytes (27 73), their on-commands differ (27 84 and 27 72),
\* and toggling one never changes the stored value of the other and
\* transmits the toggled feature's own command, under its own tag, alone.
C27_Independent ==
  /\ [](/\ Get("Emphasized Printing Off", <<>>) = <<27, 73>>
        /\ Get("Enhanced Printing Off", <<>>) = <<27, 73>>
        /\ Get("Emphasized Printing On", <<>>) = <<27, 84>>
        /\ Get("Enhanced Printing On", <<>>) = <<27, 72>>)
  /\ [][\A f \in {"emphasized", "enhanced"} :
          (ops' = ops - 1 /\ last'.op = "toggle" /\ last'.f = f) =>
            /\ toggles'[f] = ~toggles[f]
            /\ toggles'[Other(f)] = toggles[Other(f)]
            /\ Tags(out') = <<DocTag[f]>>
            /\ Bytes(out') = <<IF toggles'[f] THEN DocOn[f] ELSE <<27, 73>> >>]_vars

\* enhanced is switched off while emphasized stays on
C27_Witness ==
  /\ last.op = "toggle" /\ last.f = "enhanced"
  /\ toggles["emphasized"] /\ ~toggles["enhanced"]
  /\ Tags(out) = <<"[Enhanced Printing]">>
  /\ Bytes(out) = << <<27, 73>> >>
  /\ out[1].res = "sent"

====
